---- MODULE Spec2Model ----
(***************************************************************************)
(* Tenant-isolated Redis cache level of the ent read client and the       *)
(* automatic invalidation hook of the ent write client                    *)
(* (database/redis_entcache.go), the client pair and its process-wide     *)
(* singleton (database client, middleware/database_middleware.go), and    *)
(* the per-operation client and cache mode of the GraphQL server          *)
(* (server, middleware/cache_middleware.go).                               *)
(*                                                                         *)
(* Redis is one key space `redis`: the per-tenant version keys hold an     *)
(* integer, the versioned entry keys hold a cached entry.  Every Redis     *)
(* command is one atomic step; what a goroutine does between two commands  *)
(* is local and is folded into the step of the next command.               *)
(***************************************************************************)
EXTENDS Integers, Sequences, FiniteSets, Bags, TLC

\* ---------------------------------------------------------------- bounds
\* Spec: committed mutations, and cache-level operations (a Get with the
\* Add that follows its miss, or a Del), in one behaviour
MaxWrites == 1
MaxReads == 2
\* SpecRace: the same two bounds, for more writers and fewer readers
MaxRaceWrites == 2
MaxRaceReads == 1
\* SpecHook: hooked mutations that return no error, in one behaviour
MaxHookWrites == 3
\* SpecSeq: invalidation goroutines run one after the other, this many
\* beyond maxCacheVersion
SeqBeyond == 1
\* SpecCancel: hooked mutations that commit, in one behaviour
MaxCancelWrites == 3
\* SpecLevelOk: committed mutations and cache-level operations whose
\* returns are observed, in one behaviour
MaxLevelWrites == 1
MaxLevelReads == 2
\* SpecLevel: the same two bounds, with Redis commands that fail
MaxFallbackWrites == 1
MaxFallbackReads == 1
\* SpecServe: writes and queries of GraphQL operations, in one behaviour
MaxServeWrites == 1
MaxServeReads == 2
\* SpecSingleton: requests through DatabaseMiddleware and explicit calls of
\* InitDatabaseClient, and calls of CloseDatabaseClient, in one behaviour
MaxCalls == 3
MaxCloses == 1
\* SpecShutdown: requests through DatabaseMiddleware and calls of
\* CloseDatabaseClient, main's call included
MaxShutdownRequests == 2
MaxShutdownCloses == 2
\* SpecOnce: requests through the DatabaseMiddleware that is built on
\* sync.Once and explicit calls of its InitDatabaseClient
MaxOnceCalls == 3
\* SpecPublish: calls of Publisher methods and of BuildChannelName
MaxPublishes == 1
\* SpecSubscribe: messages that the goroutine of a subscription takes
\* from its channel
MaxMessages == 5
\* SpecPair: calls of NewClient, and Redis clients that the service
\* builds (the first connection and the reconnections)
MaxNewClients == 2
MaxRedisClients == 2
\* SpecLoader: calls of Load on one BatchLoader, and the maxBatch the
\* loader is built with
MaxLoads == 3
maxBatch == 2
\* SpecLookup: committed mutations and cache-level operations, Redis
\* failing at any command
MaxLookupWrites == 1
MaxLookupReads == 1
\* SpecTTL: committed mutations and cache-level operations, Redis
\* answering
MaxTTLWrites == 1
MaxTTLReads == 1

\* ------------------------------------------------------------- constants
maxCacheVersion == 100000

serviceName == "default"

\* federation.GetTenantID(ctx): a tenant UUID, or nil
T1 == "11111111-1111-1111-1111-111111111111"
T2 == "22222222-2222-2222-2222-222222222222"
Tenants == {T1, T2}
NoTenant == "nil"
Ctxs == Tenants \cup {NoTenant}

\* entcache.Key values, as formatted by %v
Keys == {"q1"}

\* ent.Op values and the mask the hook tests
Ops == {"OpCreate", "OpUpdate", "OpUpdateOne", "OpDelete", "OpDeleteOne"}
InvalidatingOps == {"OpCreate", "OpUpdate", "OpUpdateOne", "OpDelete", "OpDeleteOne"}

\* ast.Operation of an inbound GraphQL operation
OperationTypes == {"query", "mutation", "subscription"}

\* outcomes of next.Mutate(ctx, m): the value and the error it returns
MutateOutcomes ==
    { [val |-> "row", err |-> "nil"],
      [val |-> "nil", err |-> "constraint"],
      [val |-> "partial", err |-> "constraint"] }

VARIABLES
    redis,      \* the Redis key space: key string -> value
    db,         \* data source: per context, the generation of its rows
    tasks,      \* bag of invalidation goroutines that have not ended
    reads,      \* bag of cache-level operations that have not ended
    nreads,     \* cache-level operations started so far
    returned,   \* what the last hooked Mutate got from next.Mutate, and returned
    incrs,      \* history: per tenant, INCRs that succeeded
    resets,     \* history: per tenant, SET 0 that succeeded
    invalidated,\* history: per tenant, newest db generation whose
                \* invalidation goroutine ran to its end without an error
    got,        \* observed: what the cache level's Get returned last
    answer,     \* observed: what a query of the read client returned last
    added,      \* observed: the last Add that succeeded, while no version
                \* bump of its tenant and no loss of its key has followed
    globalDBClient, \* the process-wide client pair: 0 is nil, n the pair
                    \* that the n-th NewClient built
    dbClientMutex,  \* "free", or "locked" by a holder of Lock
    procs,      \* bag of requests in DatabaseMiddleware and of callers of
                \* InitDatabaseClient that have not returned
    started,    \* requests and callers started so far
    attempts,   \* calls of NewClient so far
    conns,      \* the open database connections
    published,  \* history: assignments of a pair to globalDBClient
    closes,     \* history: calls of CloseDatabaseClient
    handed,     \* history: the clients put into the context of a request
                \* that went on to the next handler
    mainpc,     \* where runWebServerWithGracefulShutdown stands
    pairCloses, \* history: invocations of Client.Close
    closedPairs,\* history: the pairs whose Client.Close returned nil
    dbClientOnce, \* the sync.Once of the second InitDatabaseClient: "new",
                  \* "running" or "done"
    dbClientErr,  \* the error that InitDatabaseClient keeps
    refused,    \* history: requests answered 503 by DatabaseMiddleware
    channels,   \* Redis pub/sub: the events published, each with its
                \* channel and the context of its publisher
    pubcall,    \* the Publisher method that has not returned yet
    pubret,     \* what the last Publisher method returned
    pubs,       \* Publisher methods called so far
    built,      \* what the last call of BuildChannelName returned
    subpc,      \* where the goroutine of Subscribe stands: "none" before it
                \* is started, "select", "handling", "exiting", "ended"
    nilMessageCount, \* the goroutine's count of consecutive nil messages
    subCtxDone, \* the context of the subscription is done
    subret,     \* what Subscribe returned
    received,   \* history: the messages the goroutine took from chEvents
    handlerCalls, \* history: the messages the handler was invoked for
    recovered,  \* history: panics of the handler that the goroutine recovered
    pubsubCloses, \* history: calls of pubsub.Close
    lookup,     \* history: the last version lookup of buildVersionedKey, with
                \* the answer of Redis
    opret,      \* observed: the last return of Add, Get or Del from a
                \* failed version lookup
    ttls,       \* Redis: per cache entry, the ttl Add was called with and
                \* the expiry its SET carried, in seconds (0: no expiry)
    instance, \* the TenantCacheService singleton exists (once.Do has run)
    rclient, \* the service's shared Redis client: 0 is nil, n the n-th
             \* client that newRedisClient built
    rmade, \* Redis clients built so far
    rclosed, \* the Redis clients that the health check has closed
    newpc, \* where NewClient stands
    building, \* the pair NewClient is building: its config, the Redis client
              \* in the cache level of the read handle and the one in the
              \* hook of the write handle (0: none)
    newCalls, \* calls of NewClient so far
    pairsBuilt, \* history: the pairs NewClient returned
    batch, \* BatchLoader: l.batch, the requests that wait for a flush
    timer, \* l.timer: 0 is nil, n the n-th timer of time.AfterFunc
    ntimers, \* timers started so far
    pendingTimers, \* the timers that run and have not fired
    firedTimers, \* the timers that fired and whose func has not taken the lock
    executing, \* the calls of executeBatch that have not ended
    loads, \* per request, where its Load stands, whether its
           \* context is done while it waits and when it returns
           \* on it, and what Load returned
    resultChan, \* per request, what its result channel holds
    fetched \* history: the calls of fetch, with what they returned

\* what the specifications observe of the returns
obs == <<got, answer, added>>

\* the cache and the hook
cache == <<redis, db, tasks, reads, nreads, returned, incrs, resets, invalidated>>

\* the singleton of the database middleware
srv == <<globalDBClient, dbClientMutex, procs, started, attempts, conns,
         published, closes, handed>>

\* the process around the server
main == <<mainpc, pairCloses, closedPairs>>

\* the singleton of the database middleware that is built on sync.Once
once == <<dbClientOnce, dbClientErr, refused>>

\* the publisher of events
pub == <<channels, pubcall, pubret, pubs, built>>

\* a subscription
sub == <<subpc, nilMessageCount, subCtxDone, subret, received, handlerCalls,
         recovered, pubsubCloses>>

\* the version lookups of the cache level
lvl == <<lookup, opret>>

\* the expiry of the cache entries
exp == <<ttls>>

\* NewClient next to the health check of the Redis service
pair == <<instance, rclient, rmade, rclosed, newpc, building, newCalls, pairsBuilt>>

\* a BatchLoader and the callers of its Load
ldr == <<batch, timer, ntimers, pendingTimers, firedTimers, executing, loads, resultChan, fetched>>

\* what stands outside the cache and the singleton
ext == <<main, once, pub, sub, lvl, exp, pair, ldr>>

\* the rest of it, seen from each part
beyondMain == <<once, pub, sub, lvl, exp, pair, ldr>>
beyondOnce == <<main, pub, sub, lvl, exp, pair, ldr>>
beyondPub == <<cache, obs, srv, main, once, sub, lvl, exp, pair, ldr>>
beyondSub == <<cache, obs, srv, main, once, pub, lvl, exp, pair, ldr>>
beyondLvl == <<obs, srv, main, once, pub, sub, exp, pair, ldr>>
beyondExp == <<obs, srv, main, once, pub, sub, lvl, pair, ldr>>
beyondPair == <<cache, obs, srv, main, once, pub, sub, lvl, exp, ldr>>
beyondLdr == <<cache, obs, srv, main, once, pub, sub, lvl, exp, pair>>

vars == <<redis, db, tasks, reads, nreads, returned, incrs, resets, invalidated,
          got, answer, added,
          globalDBClient, dbClientMutex, procs, started, attempts, conns,
          published, closes, handed,
          mainpc, pairCloses, closedPairs,
          dbClientOnce, dbClientErr, refused,
          channels, pubcall, pubret, pubs, built,
          subpc, nilMessageCount, subCtxDone, subret, received, handlerCalls,
          recovered, pubsubCloses,
          lookup, opret, ttls,
          instance, rclient, rmade, rclosed, newpc, building, newCalls, pairsBuilt,
          batch, timer, ntimers, pendingTimers, firedTimers, executing, loads, resultChan, fetched>>

\* ----------------------------------------------------------- key building
getCacheKeyPrefix == "entcache:v2:service:" \o serviceName \o ":"

tenantIDFromContext(ctx) == IF ctx # NoTenant THEN ctx ELSE "global"

versionKeyForTenant(tenantID) ==
    getCacheKeyPrefix \o "tenant:" \o tenantID \o ":version"

Buckets == {tenantIDFromContext(c) : c \in Ctxs}

\* goredis SET / DEL on the key space
redisSet(key, value) ==
    [k \in DOMAIN redis \cup {key} |-> IF k = key THEN value ELSE redis[k]]

redisDel(key) == [k \in DOMAIN redis \ {key} |-> redis[k]]

\* a GET that leaves a counter of 0 behind at a version key it did not find
redisGetInitCounter(key) ==
    IF key \notin DOMAIN redis /\ key \in {versionKeyForTenant(b) : b \in Buckets}
    THEN redisSet(key, 0) ELSE redis

\* goredis GET: the key space after the command, found or redis.Nil
redisGet(key) == redis

\* an INCR that counts an absent key as one below 0, and so returns 0
redisIncrValueFromBelow(key) == IF key \in DOMAIN redis THEN redis[key] + 1 ELSE 0

\* goredis INCR: an absent key counts as 0; the new value is returned
redisIncrValue(key) == IF key \in DOMAIN redis THEN redis[key] + 1 ELSE 1

\* the key format of buildVersionedKey, ver being the counter as Redis
\* returned it
formatVersionedKey(tenantID, ver, key) ==
    getCacheKeyPrefix \o "tenant:" \o tenantID \o ":v" \o ver \o ":" \o key

\* buildVersionedKey with the tenant segment left out of the key
buildVersionedKeyNoTenant(ctx, key) ==
    LET tenantID == tenantIDFromContext(ctx)
        vk == versionKeyForTenant(tenantID)
        ver == IF vk \notin DOMAIN redis THEN "0" ELSE ToString(redis[vk])
    IN  getCacheKeyPrefix \o "tenant:" \o ":v" \o ver \o ":" \o key

\* buildVersionedKey when the version lookup returns a value or redis.Nil
buildVersionedKey(ctx, key) ==
    LET tenantID == tenantIDFromContext(ctx)
        vk == versionKeyForTenant(tenantID)
        ver == IF vk \notin DOMAIN redis THEN "0" ELSE ToString(redis[vk])
    IN  formatVersionedKey(tenantID, ver, key)

\* version key the invalidation goroutine increments, for a shared bucket
hookVersionKeyShared(tenantID) ==
    getCacheKeyPrefix \o "tenant:" \o "global" \o ":version"

\* version key the invalidation goroutine increments
hookVersionKey(tenantID) ==
    getCacheKeyPrefix \o "tenant:" \o tenantID \o ":version"

\* invalidation also after a failed mutation
ShouldInvalidateAlways(out, op) == op \in InvalidatingOps

\* the hook starts its goroutine: next.Mutate returned no error and the
\* operation is a create, update or delete
ShouldInvalidate(out, op) == out.err = "nil" /\ op \in InvalidatingOps

\* the goroutine resets the counter when INCR returned this value
NeedsReset(newVersion) == newVersion >= maxCacheVersion

\* the stored counter of a bucket, NoKey when the key is absent
NoKey == 0 - 1
VersionState(bucket) ==
    IF versionKeyForTenant(bucket) \in DOMAIN redis
    THEN redis[versionKeyForTenant(bucket)] ELSE NoKey

\* the version a context resolves now: an absent counter reads as 0
CurrentVersion(ctx) ==
    LET vk == versionKeyForTenant(tenantIDFromContext(ctx))
    IN  IF vk \in DOMAIN redis THEN redis[vk] ELSE 0

\* what Get(ctx, key) finds now: the entry at the versioned key, if any
GetResult(ctx, key) ==
    LET vkey == buildVersionedKey(ctx, key)
    IN  IF vkey \in DOMAIN redis THEN {redis[vkey]} ELSE {}

\* a nil *entcache.Entry, and the zero value &entcache.Entry{}
NilEntry == 0 - 1
ZeroEntry == 0 - 2

\* MarshalBinary that encodes a fresh, empty entry
MarshalBinaryEmpty(entry) == <<"gob", ZeroEntry>>

\* entry.MarshalBinary(): the encoding the entry is stored in
MarshalBinary(entry) == <<"gob", entry>>

\* entry.UnmarshalBinary(data): the entry the stored bytes decode to
UnmarshalBinary(data) == data[2]

\* Get that hands the redis.Nil of go-redis on to its caller
GetReturnRawNil(q, ok) ==
    IF ~ok THEN [entry |-> NilEntry, err |-> "transport"]
    ELSE IF q.vkey \notin DOMAIN redis THEN [entry |-> NilEntry, err |-> "redis: nil"]
    ELSE [entry |-> UnmarshalBinary(redis[q.vkey].data), err |-> "nil"]

\* what Get returns from its second command, the GET of the versioned key
GetReturn(q, ok) ==
    IF ~ok THEN [entry |-> NilEntry, err |-> "transport"]
    ELSE IF q.vkey \notin DOMAIN redis THEN [entry |-> NilEntry, err |-> "ErrNotFound"]
    ELSE [entry |-> UnmarshalBinary(redis[q.vkey].data), err |-> "nil"]

\* what Get returns when the version lookup of buildVersionedKey fails
VersionLookupError == [entry |-> NilEntry, err |-> "transport"]

\* ttl = 5 * time.Minute, in seconds
defaultTTL == 300

\* the ttl values Add is called with, in seconds: what DB_CACHE_TTL can
\* make of the driver's TTL option
TTLs == {0 - 60, 0, 60, 600}

\* an Add that hands the caller's ttl to SET as it is
SetExpirationAsGiven(ttl) == ttl

\* the expiration Add hands to SET
SetExpiration(ttl) == IF ttl <= 0 THEN defaultTTL ELSE ttl

\* a key builder that takes a failed lookup for an absent counter
LookupErrSwallowed(ok) == "nil"

\* buildVersionedKey returns the error of its GET unless that is
\* redis.Nil
LookupErr(ok) == IF ok THEN "nil" ELSE VersionLookupError.err

NoLookup == [n |-> 0, op |-> "", ctx |-> "", key |-> "", ok |-> TRUE, absent |-> FALSE]
NoOpReturn == [n |-> 0, op |-> "", err |-> "none"]

\* a cache driver that returns every error of Get to the caller
DriverPathFailFast(r) ==
    IF r.err = "nil" THEN "hit"
    ELSE IF r.err = "ErrNotFound" THEN "record" ELSE "fail"

\* what the cache driver of the read client does with the return of Get:
\* serve the entry, query and record the rows for Add, or query directly
DriverPath(r) ==
    IF r.err = "nil" THEN "hit"
    ELSE IF r.err = "ErrNotFound" THEN "record" ELSE "direct"

\* client selection that covers the subscription by its default case
InjectedClientDefaultQuery(kind) ==
    IF kind = "mutation" THEN "mutation" ELSE "query"

\* the ent client NewGraphQLServer puts into the operation context:
\* db.Query() or db.Mutation()
InjectedClient(kind) ==
    IF kind = "query" THEN "query"
    ELSE IF kind \in {"mutation", "subscription"} THEN "mutation"
    ELSE "query"

\* a tenant test that every context passes
TenantPresentAlways(ctx) == TRUE

\* the tenant test of GraphQLCacheMiddleware:
\* federation.GetTenantID(ctx) != nil
TenantPresent(ctx) == ctx # NoTenant

\* cache middleware that leaves the context of a mutation as it is
CacheModeMutationUntouched(kind, ctx) ==
    IF kind = "query" THEN (IF ctx # NoTenant THEN "enabled" ELSE "skip")
    ELSE "untouched"

\* what GraphQLCacheMiddleware does to the operation context:
\* EnableContextCache, SkipCache, or nothing
CacheMode(kind, ctx) ==
    IF kind = "query" THEN (IF TenantPresent(ctx) THEN "enabled" ELSE "skip")
    ELSE IF kind = "mutation" THEN "skip"
    ELSE "untouched"

\* ent clients that all carry the cache driver
UsesCacheAnyClient(client, mode) == mode # "skip"

\* a query through this client, with this context, goes through the
\* Redis cache level: only the query client is built with the cache
\* driver, and the driver steps aside for a context that says skip
UsesCache(client, mode) == client = "query" /\ mode # "skip"

\* a use of the read client that is not a GraphQL operation
NoOp == [kind |-> "none", client |-> "query", mode |-> "untouched"]

VersionKeys == {versionKeyForTenant(b) : b \in Buckets}
EntryKeys == DOMAIN redis \ VersionKeys

\* ------------------------------------------------------------ NewClient
\* no pair in the making
NoBuilding == [enableCache |-> FALSE, level |-> 0, hook |-> 0]

\* where createEntClient goes after its ping of the database
AfterPing(pc, enableCache) ==
    IF pc = "queryPing"
    THEN IF enableCache THEN "queryService" ELSE "mutationPing"
    ELSE "mutationService"

\* where createEntClient goes when GetTenantCacheService returned err
AfterService(pc, err) ==
    IF pc = "queryService"
    THEN IF err = "nil" THEN "queryClient" ELSE "mutationPing"
    ELSE IF err = "nil" THEN "mutationClient" ELSE "return"

\* ---------------------------------------------------------- BatchLoader
Requests == 1..MaxLoads

\* a result channel that holds nothing, and the zero value of V
NoResult == [value |-> << >>, err |-> "none"]
ZeroValue == <<"value", 0>>

\* a Load that has not been called
NoLoad == [pc |-> "none", ctxDone |-> FALSE, ret |-> NoResult]

\* the flush test of Load that lets a batch of maxBatch wait
BatchFullAbove(n) == n > maxBatch

\* Load flushes the batch at once: len(l.batch) >= l.maxBatch
BatchFull(n) == n >= maxBatch

\* what fetch returns for a batch of len keys: values[i] is told by i,
\* errors[i] is not nil at index bad; both slices lack their last element
\* when short
FetchValues(len, short) ==
    [i \in 1..(IF short THEN len - 1 ELSE len) |-> <<"value", i>>]

FetchErrors(len, short, bad) ==
    [i \in 1..(IF short THEN len - 1 ELSE len) |-> IF i = bad THEN "fetch" ELSE "nil"]

\* the result executeBatch sends to the request at index i of its batch
ResultAt(values, errors, i) ==
    [value |-> IF i <= Len(values) THEN values[i] ELSE ZeroValue,
     err |-> IF i <= Len(errors) THEN errors[i] ELSE "nil"]

\* --------------------------------------------------------- subscription
\* if nilMessageCount >= 3: the channel counts as closed
maxNilMessages == 3

\* what comes out of chEvents: a message, or nil
Messages == {"msg", "nil"}

\* a counter of nil messages that no message resets
CountAfterNoReset(msg, count) == IF msg = "nil" THEN count + 1 ELSE count

\* nilMessageCount after a message: nilMessageCount++ for nil,
\* nilMessageCount = 0 for a message that is not nil
CountAfter(msg, count) == IF msg = "nil" THEN count + 1 ELSE 0

\* ------------------------------------------------------------ publisher
\* the entity types, entity ids (a nil *string is the empty sequence)
\* and actions that the callers pass
EntityTypes == {"ticket", "ticket_comment", "user"}
EntityIDs == {<< >>, <<"e1">>}
EntityActions == {"created", "updated", "deleted"}

\* the methods of Publisher
PublisherMethods == {"PublishEntityUpdated", "PublishEntityDeleted", "PublishEntityCreated",
                     "PublishEntityEvent", "PublishMessageEvent",
                     "PublishMessageEventToChat", "PublishOnlineStatusEvent",
                     "PublishNotificationEvent", "PublishTicketWorkTimeEvent"}

\* federation.GetTenantID(ctx) != nil
HasTenantID(ctx) == ctx # NoTenant

\* a channel name that leaves the tenant out
BuildChannelNameUnscoped(ctx, entityType, entityID) ==
    IF ~HasTenantID(ctx)
    THEN [name |-> "", err |-> "unauthorized"]
    ELSE IF entityID # << >>
    THEN [name |-> entityType \o "_" \o entityID[1], err |-> "nil"]
    ELSE [name |-> entityType \o ":updates", err |-> "nil"]

\* SubscriptionService.BuildChannelName
BuildChannelName(ctx, entityType, entityID) ==
    IF ~HasTenantID(ctx)
    THEN [name |-> "", err |-> "unauthorized"]
    ELSE IF entityID # << >>
    THEN [name |-> ctx \o ":" \o entityType \o "_" \o entityID[1], err |-> "nil"]
    ELSE [name |-> ctx \o ":" \o entityType \o ":updates", err |-> "nil"]

\* the channels a Publisher method builds, in the order it publishes to
\* them: each a pair of entity type and entity id for BuildChannelName
ChannelArgs(method, entityType, id) ==
    IF method \in {"PublishEntityUpdated", "PublishEntityDeleted"}
    THEN (IF entityType \in {"ticket", "ticket_comment"}
          THEN << <<entityType, << >> >> >> ELSE << >>)
         \o
         (IF entityType # "ticket_comment"
          THEN << <<entityType, <<id>> >> >> ELSE << >>)
    ELSE IF method = "PublishEntityCreated" THEN << <<entityType, << >> >> >>
    ELSE IF method = "PublishEntityEvent" THEN << <<entityType, <<id>> >> >>
    ELSE IF method = "PublishMessageEvent" THEN << <<"message", << >> >> >>
    ELSE IF method = "PublishMessageEventToChat" THEN << <<"message_chat", <<id>> >> >>
    ELSE IF method = "PublishOnlineStatusEvent" THEN << <<"online_status", << >> >> >>
    ELSE IF method = "PublishNotificationEvent" THEN << <<"notification_user", <<id>> >> >>
    ELSE << <<"ticket_work_time", <<id>> >> >>

\* the EntityEvent a Publisher method publishes
EventOf(method, entityType, action) ==
    [Action |-> IF method \in {"PublishEntityUpdated", "PublishOnlineStatusEvent"}
                THEN "updated"
                ELSE IF method = "PublishEntityDeleted" THEN "deleted"
                ELSE IF method = "PublishEntityCreated" THEN "created"
                ELSE action,
     Type |-> IF method \in {"PublishMessageEvent", "PublishMessageEventToChat"}
              THEN "message"
              ELSE IF method = "PublishOnlineStatusEvent" THEN "user_online_status"
              ELSE IF method = "PublishNotificationEvent" THEN "notification"
              ELSE IF method = "PublishTicketWorkTimeEvent" THEN "ticket_work_time"
              ELSE entityType]

NoCall == [method |-> "", ctx |-> "", todo |-> << >>, event |-> [Action |-> "", Type |-> ""]]
NoPubReturn == [method |-> "", ctx |-> "", err |-> "none"]
NoBuilt == [ctx |-> "", name |-> "", err |-> "none"]

\* ------------------------------------------------------------------ state
NoPair == [val |-> "nil", err |-> "nil"]
NoReturn == [entry |-> NilEntry, err |-> "none"]
NoAnswer == [rows |-> NilEntry, err |-> "none"]
NoAdd == [ctx |-> "", key |-> "", vkey |-> "", entry |-> NilEntry]

\* the counter a tenant starts with (0: no counter yet)
InitialVersion(t) == IF t = T1 THEN maxCacheVersion - 1 ELSE 0

\* the process serves, nothing has been closed
InitMain ==
    /\ mainpc = "serving"
    /\ pairCloses = 0
    /\ closedPairs = {}

\* var globalDBClient, dbClientOnce, dbClientErr
InitOnce ==
    /\ dbClientOnce = "new"
    /\ dbClientErr = "nil"
    /\ refused = 0

\* nothing published, no Publisher method called
InitPub ==
    /\ channels = {}
    /\ pubcall = NoCall
    /\ pubret = NoPubReturn
    /\ pubs = 0
    /\ built = NoBuilt

\* Subscribe has not been called
InitSub ==
    /\ subpc = "none"
    /\ nilMessageCount = 0
    /\ subCtxDone = FALSE
    /\ subret = "none"
    /\ received = << >>
    /\ handlerCalls = << >>
    /\ recovered = 0
    /\ pubsubCloses = 0

\* no version lookup yet
InitLvl ==
    /\ lookup = NoLookup
    /\ opret = NoOpReturn

\* no cache entry
InitExp ==
    /\ ttls = [k \in {} |-> [asked |-> 0, expiry |-> 0]]

\* no Redis service yet, NewClient not called
InitPair ==
    /\ instance = FALSE
    /\ rclient = 0
    /\ rmade = 0
    /\ rclosed = {}
    /\ newpc = "idle"
    /\ building = NoBuilding
    /\ newCalls = 0
    /\ pairsBuilt = {}

\* a new BatchLoader, no Load called
InitLdr ==
    /\ batch = << >>
    /\ timer = 0
    /\ ntimers = 0
    /\ pendingTimers = {}
    /\ firedTimers = {}
    /\ executing = {}
    /\ loads = [r \in Requests |-> NoLoad]
    /\ resultChan = [r \in Requests |-> NoResult]
    /\ fetched = EmptyBag

InitExt ==
    /\ InitMain
    /\ InitOnce
    /\ InitPub
    /\ InitSub
    /\ InitLvl
    /\ InitExp
    /\ InitPair
    /\ InitLdr

\* Redis outlives the process: T1 is a tenant whose counter stands one
\* below the bound, T2 a tenant that has no counter yet.
Init ==
    /\ redis = [k \in {versionKeyForTenant(T1)} |-> InitialVersion(T1)]
    /\ db = [c \in Ctxs |-> 0]
    /\ tasks = EmptyBag
    /\ reads = EmptyBag
    /\ nreads = 0
    /\ returned = [next |-> NoPair, ret |-> NoPair]
    /\ incrs = [t \in Tenants |-> 0]
    /\ resets = [t \in Tenants |-> 0]
    /\ invalidated = [t \in Tenants |-> 0]
    /\ got = NoReturn
    /\ answer = NoAnswer
    /\ added = NoAdd
    /\ globalDBClient = 0
    /\ dbClientMutex = "free"
    /\ procs = EmptyBag
    /\ started = 0
    /\ attempts = 0
    /\ conns = {}
    /\ published = 0
    /\ closes = 0
    /\ handed = {}
    /\ InitExt

Max(a, b) == IF a >= b THEN a ELSE b

One(x) == SetToBag({x})
\* committed mutations so far
Writes == db[T1] + db[T2] + db[NoTenant]

\* ------------------------------------------------- invalidation hook
\* a hook that answers for its background task: no value, and an error
HookReturnTaskError(out) ==
    IF out.err = "nil" THEN [val |-> "nil", err |-> "invalidation"] ELSE out

\* what the hook hands back to its caller
HookReturn(out) == out

\* Mutate of the hooked write client: next.Mutate, then the goroutine is
\* started and result, err are returned
Mutate(ctx, op, out) ==
    /\ db' = IF out.err = "nil" THEN [db EXCEPT ![ctx] = @ + 1] ELSE db
    /\ tasks' = IF ShouldInvalidate(out, op)
                THEN tasks (+) One([pc |-> "spawned", tenant |-> ctx, next |-> out,
                                    newVersion |-> 0, gen |-> db'[ctx],
                                    ctxDone |-> FALSE, doneAtIncr |-> FALSE])
                ELSE tasks
    /\ returned' = [next |-> out, ret |-> HookReturn(out)]
    /\ UNCHANGED <<redis, reads, nreads, incrs, resets, invalidated>>

\* the goroutine's Redis commands run on the original context
RedisCtxDoneOriginal(c) == c.ctxDone

\* the context of the goroutine's Redis commands is done: bctx descends
\* from context.Background(), so Done of the original context never
\* reaches it (its own 5 s timeout is a failed command)
RedisCtxDone(c) == FALSE

\* the caller's context is cancelled, or its deadline passes, after the
\* hooked Mutate has returned
CancelCtx(c) ==
    /\ BagIn(c, tasks)
    /\ ~c.ctxDone
    /\ tasks' = (tasks (-) One(c)) (+) One([c EXCEPT !.ctxDone = TRUE])
    /\ UNCHANGED <<redis, db, reads, nreads, returned, incrs, resets, invalidated>>

\* the goroutine up to and including INCR
TaskIncr(c, ok) ==
    LET versionKey == hookVersionKey(c.tenant)
        newVersion == redisIncrValue(versionKey)
    IN  /\ BagIn(c, tasks)
        /\ c.pc = "spawned"
        /\ IF c.tenant = NoTenant \/ ~ok \/ RedisCtxDone(c)
           THEN /\ tasks' = tasks (-) One(c)
                /\ UNCHANGED <<redis, incrs, invalidated>>
           ELSE /\ redis' = redisSet(versionKey, newVersion)
                /\ incrs' = [incrs EXCEPT ![c.tenant] = @ + 1]
                /\ IF NeedsReset(newVersion)
                   THEN /\ tasks' = (tasks (-) One(c)) (+)
                                    One([c EXCEPT !.pc = "reset", !.newVersion = newVersion,
                                                  !.doneAtIncr = c.ctxDone])
                        /\ UNCHANGED invalidated
                   ELSE /\ tasks' = tasks (-) One(c)
                        /\ invalidated' = [invalidated EXCEPT ![c.tenant] = Max(@, c.gen)]
        /\ UNCHANGED <<db, reads, nreads, returned, resets>>

\* the goroutine's SET versionKey 0 after newVersion >= maxCacheVersion
TaskReset(c, ok) ==
    LET versionKey == hookVersionKey(c.tenant)
    IN  /\ BagIn(c, tasks)
        /\ c.pc = "reset"
        /\ tasks' = tasks (-) One(c)
        /\ IF ok /\ ~RedisCtxDone(c)
           THEN /\ redis' = redisSet(versionKey, 0)
                /\ resets' = [resets EXCEPT ![c.tenant] = @ + 1]
                /\ invalidated' = [invalidated EXCEPT ![c.tenant] = Max(@, c.gen)]
           ELSE UNCHANGED <<redis, resets, invalidated>>
        /\ UNCHANGED <<db, reads, nreads, returned, incrs>>

\* ------------------------------------------------- cache level
\* Get, first command: the version lookup of buildVersionedKey.  When it
\* fails Get returns the error and the driver queries the data source.
GetKey(ctx, key, ok) ==
    /\ reads' = IF LookupErr(ok) # "nil" /\ DriverPath(VersionLookupError) = "fail"
                THEN reads
                ELSE reads (+)
                     One([pc |-> IF LookupErr(ok) = "nil" THEN "get" ELSE "fetch",
                          ctx |-> ctx,
                          key |-> key, add |-> FALSE, data |-> 0, fetchVer |-> 0,
                          vkey |-> IF LookupErr(ok) = "nil"
                                   THEN buildVersionedKey(ctx, key) ELSE "",
                          after |-> IF added.ctx = ctx /\ added.key = key
                                    THEN added ELSE NoAdd,
                          op |-> NoOp])
    /\ nreads' = nreads + 1
    /\ redis' = IF ok THEN redisGet(versionKeyForTenant(tenantIDFromContext(ctx)))
                ELSE redis
    /\ UNCHANGED <<db, tasks, returned, incrs, resets, invalidated>>

\* Get, second command: GET of the versioned key; a hit ends the query, a
\* miss (ErrNotFound) makes the driver query and then Add
GetEntry(q, ok) ==
    /\ BagIn(q, reads)
    /\ q.pc = "get"
    /\ reads' = IF DriverPath(GetReturn(q, ok)) \in {"hit", "fail"}
                THEN reads (-) One(q)
                ELSE (reads (-) One(q)) (+)
                     One([q EXCEPT !.pc = "fetch",
                                   !.add = (DriverPath(GetReturn(q, ok)) = "record"),
                                   !.vkey = "", !.after = NoAdd])
    /\ redis' = IF ok THEN redisGet(q.vkey) ELSE redis
    /\ UNCHANGED <<db, tasks, nreads, returned, incrs, resets, invalidated>>

\* the driver's query of the data source after a miss or a cache error
Fetch(q) ==
    /\ BagIn(q, reads)
    /\ q.pc = "fetch"
    /\ reads' = IF q.add
                THEN (reads (-) One(q)) (+)
                     One([q EXCEPT !.pc = "addkey", !.data = db[q.ctx],
                                   !.fetchVer = CurrentVersion(q.ctx)])
                ELSE reads (-) One(q)
    /\ UNCHANGED <<redis, db, tasks, nreads, returned, incrs, resets, invalidated>>

\* Add, first command: the version lookup of buildVersionedKey
AddKey(q, ok) ==
    /\ BagIn(q, reads)
    /\ q.pc = "addkey"
    /\ reads' = IF LookupErr(ok) = "nil"
                THEN (reads (-) One(q)) (+)
                     One([q EXCEPT !.pc = "addset",
                                   !.vkey = buildVersionedKey(q.ctx, q.key)])
                ELSE reads (-) One(q)
    /\ redis' = IF ok THEN redisGet(versionKeyForTenant(tenantIDFromContext(q.ctx)))
                ELSE redis
    /\ UNCHANGED <<db, tasks, nreads, returned, incrs, resets, invalidated>>

\* Add, second command: SET of the versioned key with a ttl
AddSet(q, ok) ==
    LET entry == [data |-> MarshalBinary(q.data), owner |-> q.ctx, by |-> q.op.kind]
    IN  /\ BagIn(q, reads)
        /\ q.pc = "addset"
        /\ redis' = IF ok THEN redisSet(q.vkey, entry) ELSE redis
        /\ reads' = reads (-) One(q)
        /\ UNCHANGED <<db, tasks, nreads, returned, incrs, resets, invalidated>>

\* Del, first command: the version lookup of buildVersionedKey
DelKey(ctx, key, ok) ==
    /\ reads' = IF LookupErr(ok) = "nil"
                THEN reads (+) One([pc |-> "del", ctx |-> ctx, key |-> key, add |-> FALSE,
                                    data |-> 0, fetchVer |-> 0,
                                    vkey |-> buildVersionedKey(ctx, key),
                                    after |-> NoAdd, op |-> NoOp])
                ELSE reads
    /\ nreads' = nreads + 1
    /\ redis' = IF ok THEN redisGet(versionKeyForTenant(tenantIDFromContext(ctx)))
                ELSE redis
    /\ UNCHANGED <<db, tasks, returned, incrs, resets, invalidated>>

\* Del, second command: DEL of the versioned key
DelEntry(q, ok) ==
    /\ BagIn(q, reads)
    /\ q.pc = "del"
    /\ redis' = IF ok THEN redisDel(q.vkey) ELSE redis
    /\ reads' = reads (-) One(q)
    /\ UNCHANGED <<db, tasks, nreads, returned, incrs, resets, invalidated>>

\* Redis drops an entry whose ttl ran out
Expire(k) ==
    /\ k \in EntryKeys
    /\ redis' = redisDel(k)
    /\ UNCHANGED <<db, tasks, reads, nreads, returned, incrs, resets, invalidated>>

\* ------------------------------------------------- GraphQL operations
\* a query of a GraphQL operation's handler: the operation middlewares
\* have put the client and the cache mode into the context, the handler
\* queries through the client of the context; with the cache driver in
\* the way this is the first command of Get, else the data source is
\* queried directly
ServeOperation(kind, ctx, key, ok) ==
    LET op == [kind |-> kind, client |-> InjectedClient(kind),
               mode |-> CacheMode(kind, ctx)]
        cached == UsesCache(op.client, op.mode)
    IN  /\ reads' = IF cached /\ ~ok /\ DriverPath(VersionLookupError) = "fail"
                    THEN reads
                    ELSE reads (+)
                         One([pc |-> IF cached /\ ok THEN "get" ELSE "fetch", ctx |-> ctx,
                              key |-> key, add |-> FALSE, data |-> 0, fetchVer |-> 0,
                              vkey |-> IF cached /\ ok
                                       THEN buildVersionedKey(ctx, key) ELSE "",
                              after |-> NoAdd, op |-> op])
        /\ nreads' = nreads + 1
        /\ UNCHANGED <<redis, db, tasks, returned, incrs, resets, invalidated>>

\* a write of a mutation operation's handler, through the client of the
\* context: the hooked Mutate of the write client, or the commit alone
\* through a client that has no hook
ServeMutation(ctx, op, out) ==
    IF InjectedClient("mutation") = "mutation"
    THEN Mutate(ctx, op, out)
    ELSE /\ db' = IF out.err = "nil" THEN [db EXCEPT ![ctx] = @ + 1] ELSE db
         /\ returned' = [next |-> out, ret |-> out]
         /\ UNCHANGED <<redis, tasks, reads, nreads, incrs, resets, invalidated>>

\* ------------------------------------------------- client pair singleton
\* InitDatabaseClient that builds a client whatever globalDBClient holds
AlreadyInitializedNever(client) == FALSE

\* InitDatabaseClient, under the lock: if globalDBClient != nil return nil
AlreadyInitialized(client) == client # 0

\* NewClient that leaves the query connection open when the mutation
\* connection fails
ConnsAfterMutationFailureLeak(attempt) == conns

\* NewClient when createEntClient fails for the mutation client: the
\* query client is closed
ConnsAfterMutationFailure(attempt) ==
    conns \ {[client |-> attempt, type |-> "query"]}

\* the proc p of the bag goes on as r
Goes(p, r) == procs' = (procs (-) One(p)) (+) One(r)

\* DatabaseMiddleware, a request arrives: globalDBClient is read under
\* RLock; a nil client makes the request call InitDatabaseClient
StartRequest ==
    /\ dbClientMutex = "free"
    /\ procs' = procs (+) One([kind |-> "request",
                               pc |-> IF globalDBClient = 0 THEN "init" ELSE "pass",
                               client |-> globalDBClient, attempt |-> 0,
                               viaInit |-> globalDBClient = 0, err |-> "nil"])
    /\ started' = started + 1
    /\ UNCHANGED <<globalDBClient, dbClientMutex, attempts, conns, published, closes,
                   handed, cache, obs>>

\* an explicit call of InitDatabaseClient
StartInit ==
    /\ procs' = procs (+) One([kind |-> "init", pc |-> "init", client |-> 0,
                               attempt |-> 0, viaInit |-> TRUE, err |-> "nil"])
    /\ started' = started + 1
    /\ UNCHANGED <<globalDBClient, dbClientMutex, attempts, conns, published, closes,
                   handed, cache, obs>>

\* InitDatabaseClient: Lock, then return nil at once when the client is
\* there (the deferred Unlock runs), else go on to NewClient with the
\* lock held
InitLock(p) ==
    /\ BagIn(p, procs)
    /\ p.pc = "init"
    /\ dbClientMutex = "free"
    /\ IF AlreadyInitialized(globalDBClient)
       THEN /\ Goes(p, [p EXCEPT !.pc = "inited"])
            /\ UNCHANGED <<dbClientMutex, attempts>>
       ELSE /\ Goes(p, [p EXCEPT !.pc = "newclient", !.attempt = attempts + 1])
            /\ dbClientMutex' = "locked"
            /\ attempts' = attempts + 1
    /\ UNCHANGED <<globalDBClient, started, conns, published, closes, handed, cache, obs>>

\* NewClient: createEntClient for the query client; a failure makes
\* NewClient and InitDatabaseClient return the error
CreateQueryClient(p, ok) ==
    /\ BagIn(p, procs)
    /\ p.pc = "newclient"
    /\ IF ok
       THEN /\ conns' = conns \cup {[client |-> p.attempt, type |-> "query"]}
            /\ Goes(p, [p EXCEPT !.pc = "query_ok"])
            /\ UNCHANGED dbClientMutex
       ELSE /\ Goes(p, [p EXCEPT !.pc = "failed", !.err = "query"])
            /\ dbClientMutex' = "free"
            /\ UNCHANGED conns
    /\ UNCHANGED <<globalDBClient, started, attempts, published, closes, handed, cache, obs>>

\* NewClient: createEntClient for the mutation client; on success
\* InitDatabaseClient assigns the pair to globalDBClient, on failure the
\* query client is closed and the error returned
CreateMutationClient(p, ok) ==
    /\ BagIn(p, procs)
    /\ p.pc = "query_ok"
    /\ dbClientMutex' = "free"
    /\ IF ok
       THEN /\ conns' = conns \cup {[client |-> p.attempt, type |-> "mutation"]}
            /\ globalDBClient' = p.attempt
            /\ published' = published + 1
            /\ Goes(p, [p EXCEPT !.pc = "inited"])
       ELSE /\ conns' = ConnsAfterMutationFailure(p.attempt)
            /\ Goes(p, [p EXCEPT !.pc = "failed", !.err = "mutation"])
            /\ UNCHANGED <<globalDBClient, published>>
    /\ UNCHANGED <<started, attempts, closes, handed, cache, obs>>

\* DatabaseMiddleware after InitDatabaseClient returned nil: the client
\* is read again under RLock
Reread(p) ==
    /\ BagIn(p, procs)
    /\ p.kind = "request" /\ p.pc = "inited"
    /\ dbClientMutex = "free"
    /\ Goes(p, [p EXCEPT !.pc = "pass", !.client = globalDBClient])
    /\ UNCHANGED <<globalDBClient, dbClientMutex, started, attempts, conns, published,
                   closes, handed, cache, obs>>

\* DatabaseMiddleware puts the client into the context and calls the
\* next handler
Pass(p) ==
    /\ BagIn(p, procs)
    /\ p.pc = "pass"
    /\ procs' = procs (-) One(p)
    /\ handed' = handed \cup {[client |-> p.client, viaInit |-> p.viaInit,
                                afterClose |-> closes > 0]}
    /\ UNCHANGED <<globalDBClient, dbClientMutex, started, attempts, conns, published,
                   closes, cache, obs>>

\* an explicit caller gets its return; a request whose
\* InitDatabaseClient failed answers 503 and calls no next handler
Finish(p) ==
    /\ BagIn(p, procs)
    /\ p.pc = "failed" \/ (p.kind = "init" /\ p.pc = "inited")
    /\ procs' = procs (-) One(p)
    /\ UNCHANGED <<globalDBClient, dbClientMutex, started, attempts, conns, published,
                   closes, handed, cache, obs>>

\* CloseDatabaseClient, under the lock: Client.Close closes both
\* clients; globalDBClient becomes nil unless a close failed
CloseDatabaseClient(okQuery, okMutation) ==
    /\ dbClientMutex = "free"
    /\ closes' = closes + 1
    /\ IF globalDBClient = 0
       THEN UNCHANGED <<globalDBClient, conns>>
       ELSE /\ conns' = conns \
                   ( {c \in {[client |-> globalDBClient, type |-> "query"]} : okQuery}
                     \cup
                     {c \in {[client |-> globalDBClient, type |-> "mutation"]} : okMutation} )
            /\ globalDBClient' = IF okQuery /\ okMutation THEN 0 ELSE globalDBClient
    /\ UNCHANGED <<dbClientMutex, procs, started, attempts, published, handed, cache, obs>>

NextSingleton ==
    \/ started < MaxCalls /\ StartRequest /\ UNCHANGED ext
    \/ started < MaxCalls /\ StartInit /\ UNCHANGED ext
    \/ \E p \in BagToSet(procs) : InitLock(p) /\ UNCHANGED ext
    \/ \E p \in BagToSet(procs), ok \in BOOLEAN :
          CreateQueryClient(p, ok) /\ UNCHANGED ext
    \/ \E p \in BagToSet(procs), ok \in BOOLEAN :
          CreateMutationClient(p, ok) /\ UNCHANGED ext
    \/ \E p \in BagToSet(procs) : Reread(p) /\ UNCHANGED ext
    \/ \E p \in BagToSet(procs) : Pass(p) /\ UNCHANGED ext
    \/ \E p \in BagToSet(procs) : Finish(p) /\ UNCHANGED ext
    \/ \E okQuery \in BOOLEAN, okMutation \in BOOLEAN :
          /\ closes < MaxCloses
          /\ CloseDatabaseClient(okQuery, okMutation)
          /\ UNCHANGED ext

SpecSingleton == Init /\ [][NextSingleton]_vars

\* ------------------------------------------------- graceful shutdown
\* a main that closes the client pair before the server has shut down
MainClosesAtSignalled(pc) == pc = "signalled"

\* runWebServerWithGracefulShutdown calls CloseDatabaseClient after
\* srv.Shutdown has returned (with nil or with an error)
MainClosesAt(pc) == pc = "stopped"

\* the shutdown signal arrives
Signal ==
    /\ mainpc = "serving"
    /\ mainpc' = "signalled"
    /\ UNCHANGED <<pairCloses, closedPairs, srv, cache, obs>>

\* srv.Shutdown is called: the listener is closed, no request starts
\* after it
ShutdownCall ==
    /\ mainpc = "signalled"
    /\ mainpc' = "draining"
    /\ UNCHANGED <<pairCloses, closedPairs, srv, cache, obs>>

\* srv.Shutdown returns: nil when no request is left, an error when
\* its 15 seconds ran out with requests still in their handlers
ShutdownReturn(ok) ==
    /\ mainpc = "draining"
    /\ ok => procs = EmptyBag
    /\ mainpc' = "stopped"
    /\ UNCHANGED <<pairCloses, closedPairs, srv, cache, obs>>

\* a call of CloseDatabaseClient invokes Client.Close of the pair that
\* globalDBClient holds, if it holds one
ClientClose(okQuery, okMutation) ==
    /\ pairCloses' = IF globalDBClient # 0 THEN pairCloses + 1 ELSE pairCloses
    /\ closedPairs' = IF globalDBClient # 0 /\ okQuery /\ okMutation
                      THEN closedPairs \cup {globalDBClient} ELSE closedPairs

\* main's call of CloseDatabaseClient
MainClose(okQuery, okMutation) ==
    /\ MainClosesAt(mainpc)
    /\ mainpc' = "closed"
    /\ CloseDatabaseClient(okQuery, okMutation)
    /\ ClientClose(okQuery, okMutation)

\* a further call of CloseDatabaseClient before the process exits
CloseAgain(okQuery, okMutation) ==
    /\ mainpc = "closed"
    /\ mainpc' = mainpc
    /\ CloseDatabaseClient(okQuery, okMutation)
    /\ ClientClose(okQuery, okMutation)

\* runWebServerWithGracefulShutdown returns, the process exits and its
\* requests end with it
Exit ==
    /\ mainpc = "closed"
    /\ mainpc' = "exited"
    /\ UNCHANGED <<pairCloses, closedPairs, srv, cache, obs>>

\* the server accepts requests until its Shutdown is called
Accepting == mainpc \in {"serving", "signalled"}

\* the handlers run as long as the process does
Running == mainpc # "exited"

NextShutdown ==
    \/ Accepting /\ started < MaxShutdownRequests /\ StartRequest /\ UNCHANGED ext
    \/ \E p \in BagToSet(procs) : Running /\ InitLock(p) /\ UNCHANGED ext
    \/ \E p \in BagToSet(procs), ok \in BOOLEAN :
          Running /\ CreateQueryClient(p, ok) /\ UNCHANGED ext
    \/ \E p \in BagToSet(procs), ok \in BOOLEAN :
          Running /\ CreateMutationClient(p, ok) /\ UNCHANGED ext
    \/ \E p \in BagToSet(procs) : Running /\ Reread(p) /\ UNCHANGED ext
    \/ \E p \in BagToSet(procs) : Running /\ Pass(p) /\ UNCHANGED ext
    \/ \E p \in BagToSet(procs) : Running /\ Finish(p) /\ UNCHANGED ext
    \/ Signal /\ UNCHANGED beyondMain
    \/ ShutdownCall /\ UNCHANGED beyondMain
    \/ \E ok \in BOOLEAN : ShutdownReturn(ok) /\ UNCHANGED beyondMain
    \/ \E okQuery \in BOOLEAN, okMutation \in BOOLEAN :
          MainClose(okQuery, okMutation) /\ UNCHANGED beyondMain
    \/ \E okQuery \in BOOLEAN, okMutation \in BOOLEAN :
          /\ closes < MaxShutdownCloses
          /\ CloseAgain(okQuery, okMutation)
          /\ UNCHANGED beyondMain
    \/ Exit /\ UNCHANGED beyondMain

SpecShutdown == Init /\ [][NextShutdown]_vars

\* ------------------------------------------- the singleton on sync.Once
\* InitDatabaseClient, dbClientOnce.Do: the first caller runs NewClient,
\* a caller that comes while it runs waits, a caller that comes after it
\* returns dbClientErr as it was left
OnceDo(p) ==
    /\ BagIn(p, procs)
    /\ p.pc = "init"
    /\ dbClientOnce # "running"
    /\ IF dbClientOnce = "new"
       THEN /\ dbClientOnce' = "running"
            /\ attempts' = attempts + 1
            /\ Goes(p, [p EXCEPT !.pc = "newclient", !.attempt = attempts + 1])
       ELSE /\ Goes(p, [p EXCEPT !.pc = IF dbClientErr = "nil" THEN "inited" ELSE "failed",
                                 !.err = dbClientErr])
            /\ UNCHANGED <<dbClientOnce, attempts>>
    /\ UNCHANGED <<dbClientErr, refused, globalDBClient, dbClientMutex, started, conns,
                   published, closes, handed, cache, obs>>

\* NewClient inside Do: createEntClient for the query client
OnceCreateQueryClient(p, ok) ==
    /\ BagIn(p, procs)
    /\ p.pc = "newclient"
    /\ dbClientOnce = "running"
    /\ IF ok
       THEN /\ conns' = conns \cup {[client |-> p.attempt, type |-> "query"]}
            /\ Goes(p, [p EXCEPT !.pc = "query_ok"])
            /\ UNCHANGED <<dbClientOnce, dbClientErr>>
       ELSE /\ Goes(p, [p EXCEPT !.pc = "failed", !.err = "query"])
            /\ dbClientOnce' = "done"
            /\ dbClientErr' = "query"
            /\ UNCHANGED conns
    /\ UNCHANGED <<refused, globalDBClient, dbClientMutex, started, attempts, published,
                   closes, handed, cache, obs>>

\* NewClient inside Do: createEntClient for the mutation client; the
\* pair and the error are assigned to globalDBClient and dbClientErr
OnceCreateMutationClient(p, ok) ==
    /\ BagIn(p, procs)
    /\ p.pc = "query_ok"
    /\ dbClientOnce = "running"
    /\ dbClientOnce' = "done"
    /\ IF ok
       THEN /\ conns' = conns \cup {[client |-> p.attempt, type |-> "mutation"]}
            /\ globalDBClient' = p.attempt
            /\ dbClientErr' = "nil"
            /\ published' = published + 1
            /\ Goes(p, [p EXCEPT !.pc = "inited"])
       ELSE /\ conns' = ConnsAfterMutationFailure(p.attempt)
            /\ dbClientErr' = "mutation"
            /\ Goes(p, [p EXCEPT !.pc = "failed", !.err = "mutation"])
            /\ UNCHANGED <<globalDBClient, published>>
    /\ UNCHANGED <<refused, dbClientMutex, started, attempts, closes, handed, cache, obs>>

\* DatabaseMiddleware puts globalDBClient, as it is now, into the context
\* and calls the next handler
OncePass(p) ==
    /\ BagIn(p, procs)
    /\ p.kind = "request" /\ p.pc \in {"pass", "inited"}
    /\ procs' = procs (-) One(p)
    /\ handed' = handed \cup {[client |-> globalDBClient, viaInit |-> p.viaInit,
                                afterClose |-> closes > 0]}
    /\ UNCHANGED <<once, globalDBClient, dbClientMutex, started, attempts, conns, published,
                   closes, cache, obs>>

\* http.Error(w, "Database not available", http.StatusServiceUnavailable)
\* for a request that ends on a failed InitDatabaseClient
ObserveFinish(p) ==
    /\ refused' = IF p.kind = "request" /\ p.pc = "failed" THEN refused + 1 ELSE refused
    /\ UNCHANGED <<dbClientOnce, dbClientErr>>

NextOnce ==
    \/ started < MaxOnceCalls /\ StartRequest /\ UNCHANGED ext
    \/ started < MaxOnceCalls /\ StartInit /\ UNCHANGED ext
    \/ \E p \in BagToSet(procs) : OnceDo(p) /\ UNCHANGED beyondOnce
    \/ \E p \in BagToSet(procs), ok \in BOOLEAN :
          OnceCreateQueryClient(p, ok) /\ UNCHANGED beyondOnce
    \/ \E p \in BagToSet(procs), ok \in BOOLEAN :
          OnceCreateMutationClient(p, ok) /\ UNCHANGED beyondOnce
    \/ \E p \in BagToSet(procs) : OncePass(p) /\ UNCHANGED beyondOnce
    \/ \E p \in BagToSet(procs) : Finish(p) /\ ObserveFinish(p) /\ UNCHANGED beyondOnce

SpecOnce == Init /\ [][NextOnce]_vars

\* ------------------------------------------------------------ publisher
\* a Publisher method up to its first publishEvent: the tenant check,
\* then BuildChannelName for each of its channels
Publish(method, ctx, entityType, action) ==
    LET args == ChannelArgs(method, entityType, "e1")
        names == [i \in 1..Len(args) |-> BuildChannelName(ctx, args[i][1], args[i][2])]
    IN  /\ pubcall = NoCall
        /\ pubs' = pubs + 1
        /\ IF ~HasTenantID(ctx)
           THEN /\ pubret' = [method |-> method, ctx |-> ctx, err |-> "unauthorized"]
                /\ UNCHANGED pubcall
           ELSE IF \E i \in 1..Len(names) : names[i].err # "nil"
           THEN /\ pubret' = [method |-> method, ctx |-> ctx,
                              err |-> names[CHOOSE i \in 1..Len(names) :
                                                names[i].err # "nil"].err]
                /\ UNCHANGED pubcall
           ELSE /\ pubcall' = [method |-> method, ctx |-> ctx,
                               todo |-> [i \in 1..Len(names) |-> names[i].name],
                               event |-> EventOf(method, entityType, action)]
                /\ pubret' = NoPubReturn
        /\ UNCHANGED <<channels, built>>

\* publishEvent for the next channel of the method: Redis is not there,
\* or Publish fails, and the method returns the error; or the event is
\* published, and the method returns nil after its last channel
PublishEvent(outcome) ==
    /\ pubcall # NoCall
    /\ IF outcome = "nil"
       THEN /\ channels' = channels \cup {[channel |-> Head(pubcall.todo),
                                           ctx |-> pubcall.ctx,
                                           event |-> pubcall.event]}
            /\ IF Len(pubcall.todo) = 1
               THEN /\ pubcall' = NoCall
                    /\ pubret' = [method |-> pubcall.method, ctx |-> pubcall.ctx,
                                  err |-> "nil"]
               ELSE /\ pubcall' = [pubcall EXCEPT !.todo = Tail(@)]
                    /\ UNCHANGED pubret
       ELSE /\ pubcall' = NoCall
            /\ pubret' = [method |-> pubcall.method, ctx |-> pubcall.ctx, err |-> outcome]
            /\ UNCHANGED channels
    /\ UNCHANGED <<pubs, built>>

\* a call of BuildChannelName by a subscriber
CallBuildChannelName(ctx, entityType, entityID) ==
    /\ built' = [ctx |-> ctx, name |-> BuildChannelName(ctx, entityType, entityID).name,
                 err |-> BuildChannelName(ctx, entityType, entityID).err]
    /\ UNCHANGED <<channels, pubcall, pubret, pubs>>

NextPublish ==
    \/ \E method \in PublisherMethods, ctx \in Ctxs, entityType \in EntityTypes,
          action \in EntityActions :
          /\ pubs < MaxPublishes
          /\ Publish(method, ctx, entityType, action)
          /\ UNCHANGED beyondPub
    \/ \E outcome \in {"nil", "redis_unavailable", "publish"} :
          PublishEvent(outcome) /\ UNCHANGED beyondPub
    \/ \E ctx \in Ctxs, entityType \in EntityTypes, entityID \in EntityIDs :
          CallBuildChannelName(ctx, entityType, entityID) /\ UNCHANGED beyondPub

SpecPublish == Init /\ [][NextPublish]_vars

\* --------------------------------------------------------- subscription
\* Subscribe: without tenant, without Redis or without a channel it
\* returns an error and starts nothing; else it starts the goroutine and
\* returns nil
Subscribe(ctx, outcome) ==
    /\ subpc = "none" /\ subret = "none"
    /\ subret' = IF ~HasTenantID(ctx) THEN "unauthorized" ELSE outcome
    /\ subpc' = IF HasTenantID(ctx) /\ outcome = "nil" THEN "select" ELSE "none"
    /\ UNCHANGED <<nilMessageCount, subCtxDone, received, handlerCalls, recovered,
                   pubsubCloses>>

\* the subscriber's context is cancelled or runs out
SubCtxDone ==
    /\ ~subCtxDone
    /\ subCtxDone' = TRUE
    /\ UNCHANGED <<subpc, nilMessageCount, subret, received, handlerCalls, recovered,
                   pubsubCloses>>

\* select, case <-ctx.Done(): return
ExitOnDone ==
    /\ subpc = "select"
    /\ subCtxDone
    /\ subpc' = "exiting"
    /\ UNCHANGED <<nilMessageCount, subCtxDone, subret, received, handlerCalls, recovered,
                   pubsubCloses>>

\* select, case msg := <-chEvents: a nil message is counted, and the
\* third in a row ends the goroutine; another message resets the count
\* and goes to the handler
Receive(msg) ==
    /\ subpc = "select"
    /\ received' = Append(received, msg)
    /\ nilMessageCount' = CountAfter(msg, nilMessageCount)
    /\ IF msg = "nil"
       THEN /\ subpc' = IF CountAfter(msg, nilMessageCount) >= maxNilMessages
                        THEN "exiting" ELSE "select"
            /\ UNCHANGED handlerCalls
       ELSE /\ subpc' = "handling"
            /\ handlerCalls' = Append(handlerCalls, msg)
    /\ UNCHANGED <<subCtxDone, subret, recovered, pubsubCloses>>

\* the handler returns nil or an error, which is logged, or it panics
\* and the deferred function recovers
HandlerReturn(outcome) ==
    /\ subpc = "handling"
    /\ subpc' = IF outcome = "panic" THEN "exiting" ELSE "select"
    /\ recovered' = IF outcome = "panic" THEN recovered + 1 ELSE recovered
    /\ UNCHANGED <<nilMessageCount, subCtxDone, subret, received, handlerCalls,
                   pubsubCloses>>

\* the deferred function: pubsub.Close, its error logged
Cleanup(ok) ==
    /\ subpc = "exiting"
    /\ subpc' = "ended"
    /\ pubsubCloses' = pubsubCloses + 1
    /\ UNCHANGED <<nilMessageCount, subCtxDone, subret, received, handlerCalls, recovered>>

NextSubscribe ==
    \/ \E ctx \in Ctxs, outcome \in {"nil", "redis_unavailable", "redis_subscription_failed"} :
          Subscribe(ctx, outcome) /\ UNCHANGED beyondSub
    \/ SubCtxDone /\ UNCHANGED beyondSub
    \/ ExitOnDone /\ UNCHANGED beyondSub
    \/ \E msg \in Messages :
          Len(received) < MaxMessages /\ Receive(msg) /\ UNCHANGED beyondSub
    \/ \E outcome \in {"nil", "error", "panic"} :
          HandlerReturn(outcome) /\ UNCHANGED beyondSub
    \/ \E ok \in BOOLEAN : Cleanup(ok) /\ UNCHANGED beyondSub

\* the handler returns, the deferred function runs, and a select whose
\* ctx.Done() is ready again and again takes that case in the end
SpecSubscribe ==
    /\ Init
    /\ [][NextSubscribe]_vars
    /\ WF_vars(\E outcome \in {"nil", "error", "panic"} :
                   HandlerReturn(outcome) /\ UNCHANGED beyondSub)
    /\ WF_vars(\E ok \in BOOLEAN : Cleanup(ok) /\ UNCHANGED beyondSub)
    /\ SF_vars(ExitOnDone /\ UNCHANGED beyondSub)

\* ------------------------------------------------- NewClient and Redis
\* NewClient is called with a config
NewClient(enableCache) ==
    /\ newpc = "idle"
    /\ newpc' = "queryPing"
    /\ building' = [enableCache |-> enableCache, level |-> 0, hook |-> 0]
    /\ newCalls' = newCalls + 1
    /\ UNCHANGED <<instance, rclient, rmade, rclosed, pairsBuilt>>

\* createEntClient pings its database; when the ping fails NewClient
\* returns the error (and closes the query client it may have)
PingContext(ok) ==
    /\ newpc \in {"queryPing", "mutationPing"}
    /\ newpc' = IF ok THEN AfterPing(newpc, building.enableCache) ELSE "idle"
    /\ building' = IF ok THEN building ELSE NoBuilding
    /\ UNCHANGED <<instance, rclient, rmade, rclosed, newCalls, pairsBuilt>>

\* createEntClient calls redis.GetTenantCacheService(): the first call
\* makes the instance, starts healthCheckLoop and tries to connect; the
\* call returns RedisUnavailableError when the client is nil
GetTenantCacheService(connected) ==
    LET client == IF instance THEN rclient
                  ELSE IF connected /\ rmade < MaxRedisClients THEN rmade + 1 ELSE 0
        err == IF client # 0 THEN "nil" ELSE "RedisUnavailableError"
    IN  /\ newpc \in {"queryService", "mutationService"}
        /\ instance' = TRUE
        /\ rclient' = client
        /\ rmade' = IF client # rclient THEN rmade + 1 ELSE rmade
        /\ newpc' = AfterService(newpc, err)
        /\ UNCHANGED <<rclosed, building, newCalls, pairsBuilt>>

\* createEntClient calls svc.GetClient(): with a client the query handle
\* gets the Redis cache level, the mutation handle the hook
GetClient ==
    /\ newpc \in {"queryClient", "mutationClient"}
    /\ building' = IF newpc = "queryClient"
                   THEN [building EXCEPT !.level = rclient]
                   ELSE [building EXCEPT !.hook = rclient]
    /\ newpc' = IF newpc = "queryClient" THEN "mutationPing" ELSE "return"
    /\ UNCHANGED <<instance, rclient, rmade, rclosed, newCalls, pairsBuilt>>

\* NewClient returns the pair
NewClientReturn ==
    /\ newpc = "return"
    /\ pairsBuilt' = pairsBuilt \cup {building}
    /\ newpc' = "idle"
    /\ building' = NoBuilding
    /\ UNCHANGED <<instance, rclient, rmade, rclosed, newCalls>>

\* healthCheckLoop, a tick without a client: newRedisClient, and
\* setClient when it connected
HealthReconnect(ok) ==
    /\ instance
    /\ rclient = 0
    /\ rclient' = IF ok /\ rmade < MaxRedisClients THEN rmade + 1 ELSE 0
    /\ rmade' = IF rclient' # 0 THEN rmade + 1 ELSE rmade
    /\ UNCHANGED <<instance, rclosed, newpc, building, newCalls, pairsBuilt>>

\* healthCheckLoop, a tick with a client: Ping, and on an error
\* client.Close() and setClient(nil)
HealthPing(ok) ==
    /\ instance
    /\ rclient # 0
    /\ rclosed' = IF ok THEN rclosed ELSE rclosed \cup {rclient}
    /\ rclient' = IF ok THEN rclient ELSE 0
    /\ UNCHANGED <<instance, rmade, newpc, building, newCalls, pairsBuilt>>

NextPair ==
    \/ \E enableCache \in BOOLEAN :
          newCalls < MaxNewClients /\ NewClient(enableCache) /\ UNCHANGED beyondPair
    \/ \E ok \in BOOLEAN : PingContext(ok) /\ UNCHANGED beyondPair
    \/ \E connected \in BOOLEAN : GetTenantCacheService(connected) /\ UNCHANGED beyondPair
    \/ GetClient /\ UNCHANGED beyondPair
    \/ NewClientReturn /\ UNCHANGED beyondPair
    \/ \E ok \in BOOLEAN : HealthReconnect(ok) /\ UNCHANGED beyondPair
    \/ \E ok \in BOOLEAN : HealthPing(ok) /\ UNCHANGED beyondPair

SpecPair == Init /\ [][NextPair]_vars

\* ------------------------------------------------- BatchLoader
\* Load up to its select: under l.mu the request is appended; a full
\* batch is taken, the timer stopped and executeBatch started in a
\* goroutine; else a timer is started unless there is one
Load(r) ==
    LET appended == Append(batch, r)
    IN  /\ loads[r].pc = "none"
        /\ loads' = [loads EXCEPT ![r].pc = "waiting"]
        /\ IF BatchFull(Len(appended))
           THEN /\ batch' = << >>
                /\ timer' = 0
                /\ pendingTimers' = pendingTimers \ {timer}
                /\ executing' = executing \cup {appended}
                /\ UNCHANGED ntimers
           ELSE /\ batch' = appended
                /\ timer' = IF timer = 0 THEN ntimers + 1 ELSE timer
                /\ ntimers' = IF timer = 0 THEN ntimers + 1 ELSE ntimers
                /\ pendingTimers' = IF timer = 0 THEN pendingTimers \cup {ntimers + 1}
                                    ELSE pendingTimers
                /\ UNCHANGED executing
        /\ UNCHANGED <<firedTimers, resultChan, fetched>>

\* a timer fires: its func starts, and a Stop comes too late
TimerFire(t) ==
    /\ t \in pendingTimers
    /\ pendingTimers' = pendingTimers \ {t}
    /\ firedTimers' = firedTimers \cup {t}
    /\ UNCHANGED <<batch, timer, ntimers, executing, loads, resultChan, fetched>>

\* the func of a timer: under l.mu the batch is taken and l.timer set to
\* nil; executeBatch is called when the batch is not empty
TimerFunc(t) ==
    /\ t \in firedTimers
    /\ firedTimers' = firedTimers \ {t}
    /\ batch' = << >>
    /\ timer' = 0
    /\ executing' = IF Len(batch) > 0 THEN executing \cup {batch} ELSE executing
    /\ UNCHANGED <<ntimers, pendingTimers, loads, resultChan, fetched>>

\* executeBatch: the keys are handed to fetch, which returns its slices;
\* each request is sent its result unless its channel is full, and its
\* channel is closed
ExecuteBatch(b, short, bad) ==
    LET values == FetchValues(Len(b), short)
        errors == FetchErrors(Len(b), short, bad)
    IN  /\ b \in executing
        /\ fetched' = fetched (+) One([reqs |-> b, values |-> values, errors |-> errors])
        /\ resultChan' = [r \in Requests |->
                             IF resultChan[r] = NoResult
                                /\ \E i \in 1..Len(b) : b[i] = r
                             THEN ResultAt(values, errors,
                                           CHOOSE i \in 1..Len(b) : b[i] = r)
                             ELSE resultChan[r]]
        /\ executing' = executing \ {b}
        /\ UNCHANGED <<batch, timer, ntimers, pendingTimers, firedTimers, loads>>

\* the context of a Load that waits is done
LoadCtxDone(r) ==
    /\ loads[r].pc = "waiting"
    /\ ~loads[r].ctxDone
    /\ loads' = [loads EXCEPT ![r].ctxDone = TRUE]
    /\ UNCHANGED <<batch, timer, ntimers, pendingTimers, firedTimers, executing,
                   resultChan, fetched>>

\* the select of Load takes the result from its channel, the context
\* done or not
LoadReturnResult(r) ==
    /\ loads[r].pc = "waiting"
    /\ resultChan[r] # NoResult
    /\ loads' = [loads EXCEPT ![r] = [pc |-> "returned", ctxDone |-> FALSE,
                                      ret |-> resultChan[r]]]
    /\ resultChan' = [resultChan EXCEPT ![r] = NoResult]
    /\ UNCHANGED <<batch, timer, ntimers, pendingTimers, firedTimers, executing, fetched>>

\* the select of Load takes ctx.Done(): the zero value and ctx.Err()
LoadReturnCtxErr(r) ==
    /\ loads[r].pc = "waiting"
    /\ loads[r].ctxDone
    /\ loads' = [loads EXCEPT ![r].pc = "returned",
                              ![r].ret = [value |-> ZeroValue, err |-> "ctx"]]
    /\ UNCHANGED <<batch, timer, ntimers, pendingTimers, firedTimers, executing,
                   resultChan, fetched>>

LoaderRuns ==
    \/ \E t \in pendingTimers : TimerFire(t) /\ UNCHANGED beyondLdr
    \/ \E t \in firedTimers : TimerFunc(t) /\ UNCHANGED beyondLdr
    \/ \E b \in executing : \E short \in BOOLEAN, bad \in {0, Len(b)} :
          ExecuteBatch(b, short, bad) /\ UNCHANGED beyondLdr
    \/ \E r \in Requests : LoadReturnResult(r) /\ UNCHANGED beyondLdr
    \/ \E r \in Requests : LoadReturnCtxErr(r) /\ UNCHANGED beyondLdr

\* the calls of Load so far
Called == Cardinality({r \in Requests : loads[r].pc # "none"})

NextLoader ==
    \/ \E r \in Requests : r = Called + 1 /\ Load(r) /\ UNCHANGED beyondLdr
    \/ \E r \in Requests : LoadCtxDone(r) /\ UNCHANGED beyondLdr
    \/ LoaderRuns

\* timers fire, their funcs and executeBatch run on, fetch returns, and
\* a select with a ready case goes on
SpecLoader ==
    /\ Init
    /\ [][NextLoader]_vars
    /\ WF_vars(LoaderRuns)

\* mutations that commit
Committed == {o \in MutateOutcomes : o.err = "nil"}

\* the read client's cache level next to the write client's hook, for at
\* most maxW committed mutations and maxR cache-level operations; oks are
\* the outcomes of a Redis command (TRUE: it succeeds, FALSE: a transport
\* error or the timeout)
CacheNext(maxW, maxR, oks) ==
    \/ \E ctx \in Ctxs, op \in Ops, out \in Committed :
          Writes < maxW /\ Mutate(ctx, op, out) /\ UNCHANGED <<obs, srv, ext>>
    \/ \E c \in BagToSet(tasks), ok \in oks :
          TaskIncr(c, ok) /\ UNCHANGED <<obs, srv, ext>>
    \/ \E c \in BagToSet(tasks), ok \in oks :
          TaskReset(c, ok) /\ UNCHANGED <<obs, srv, ext>>
    \/ \E ctx \in Ctxs, key \in Keys, ok \in oks :
          nreads < maxR /\ GetKey(ctx, key, ok) /\ UNCHANGED <<obs, srv, ext>>
    \/ \E q \in BagToSet(reads), ok \in oks :
          GetEntry(q, ok) /\ UNCHANGED <<obs, srv, ext>>
    \/ \E q \in BagToSet(reads) :
          Fetch(q) /\ UNCHANGED <<obs, srv, ext>>
    \/ \E q \in BagToSet(reads), ok \in oks :
          AddKey(q, ok) /\ UNCHANGED <<obs, srv, ext>>
    \/ \E q \in BagToSet(reads), ok \in oks :
          AddSet(q, ok) /\ UNCHANGED <<obs, srv, ext>>
    \/ \E ctx \in Ctxs, key \in Keys, ok \in oks :
          nreads < maxR /\ DelKey(ctx, key, ok) /\ UNCHANGED <<obs, srv, ext>>
    \/ \E q \in BagToSet(reads), ok \in oks :
          DelEntry(q, ok) /\ UNCHANGED <<obs, srv, ext>>
    \/ \E k \in DOMAIN redis :
          Expire(k) /\ UNCHANGED <<obs, srv, ext>>

Next == CacheNext(MaxWrites, MaxReads, BOOLEAN)

Spec == Init /\ [][Next]_vars

\* more writers, Redis always answering
NextRace == CacheNext(MaxRaceWrites, MaxRaceReads, {TRUE})

SpecRace == Init /\ [][NextRace]_vars

\* the returns of Get and of the read client's query, as the caller sees
\* them, and the last Add that still stands
ObserveGetKey(ctx, key, ok) ==
    /\ got' = IF ok THEN got ELSE VersionLookupError
    /\ answer' = IF ~ok /\ DriverPath(VersionLookupError) = "fail"
                 THEN [rows |-> NilEntry, err |-> VersionLookupError.err]
                 ELSE answer
    /\ added' = added

ObserveGetEntry(q, ok) ==
    LET r == GetReturn(q, ok)
    IN  /\ got' = r
        /\ answer' = IF DriverPath(r) = "hit" THEN [rows |-> r.entry, err |-> "nil"]
                     ELSE IF DriverPath(r) = "fail" THEN [rows |-> NilEntry, err |-> r.err]
                     ELSE answer
        /\ added' = added

ObserveFetch(q) ==
    /\ answer' = [rows |-> db[q.ctx], err |-> "nil"]
    /\ UNCHANGED <<got, added>>

\* an Add stands when it has succeeded under the version the counter
\* still holds; an Add overtaken by a version bump between its two
\* commands does not
ObserveAddSet(q, ok) ==
    /\ added' = IF ~ok THEN added
                ELSE IF q.vkey = buildVersionedKey(q.ctx, q.key)
                THEN [ctx |-> q.ctx, key |-> q.key, vkey |-> q.vkey, entry |-> q.data]
                ELSE NoAdd
    /\ UNCHANGED <<got, answer>>

\* a version bump of the tenant of the last Add ends its standing
ObserveBump ==
    /\ added' = IF \E c \in Ctxs :
                       c = added.ctx /\ CurrentVersion(c)' # CurrentVersion(c)
                THEN NoAdd ELSE added
    /\ UNCHANGED <<got, answer>>

\* so does the loss of its key, to the ttl or to Del
ObserveDrop ==
    /\ added' = IF added.vkey \in DOMAIN redis' THEN added ELSE NoAdd
    /\ UNCHANGED <<got, answer>>

\* the read client's cache level next to the write client's hook, the
\* returns observed
LevelNext(maxW, maxR, oks) ==
    \/ \E ctx \in Ctxs, op \in Ops, out \in Committed :
          Writes < maxW /\ Mutate(ctx, op, out) /\ UNCHANGED <<obs, srv, ext>>
    \/ \E c \in BagToSet(tasks), ok \in oks :
          TaskIncr(c, ok) /\ ObserveBump /\ UNCHANGED <<srv, ext>>
    \/ \E c \in BagToSet(tasks), ok \in oks :
          TaskReset(c, ok) /\ ObserveBump /\ UNCHANGED <<srv, ext>>
    \/ \E ctx \in Ctxs, key \in Keys, ok \in oks :
          nreads < maxR /\ GetKey(ctx, key, ok) /\ ObserveGetKey(ctx, key, ok) /\ UNCHANGED <<srv, ext>>
    \/ \E q \in BagToSet(reads), ok \in oks :
          GetEntry(q, ok) /\ ObserveGetEntry(q, ok) /\ UNCHANGED <<srv, ext>>
    \/ \E q \in BagToSet(reads) :
          Fetch(q) /\ ObserveFetch(q) /\ UNCHANGED <<srv, ext>>
    \/ \E q \in BagToSet(reads), ok \in oks :
          AddKey(q, ok) /\ UNCHANGED <<obs, srv, ext>>
    \/ \E q \in BagToSet(reads), ok \in oks :
          AddSet(q, ok) /\ ObserveAddSet(q, ok) /\ UNCHANGED <<srv, ext>>
    \/ \E ctx \in Ctxs, key \in Keys, ok \in oks :
          nreads < maxR /\ DelKey(ctx, key, ok) /\ UNCHANGED <<obs, srv, ext>>
    \/ \E q \in BagToSet(reads), ok \in oks :
          DelEntry(q, ok) /\ ObserveDrop /\ UNCHANGED <<srv, ext>>
    \/ \E k \in DOMAIN redis :
          Expire(k) /\ ObserveDrop /\ UNCHANGED <<srv, ext>>

NextLevel == LevelNext(MaxFallbackWrites, MaxFallbackReads, BOOLEAN)

SpecLevel == Init /\ [][NextLevel]_vars

\* the same, Redis always answering
NextLevelOk == LevelNext(MaxLevelWrites, MaxLevelReads, {TRUE})

SpecLevelOk == Init /\ [][NextLevelOk]_vars

\* GraphQL operations of every type, with and without tenant, on the
\* client pair, Redis always answering
NextServe ==
    \/ \E ctx \in Ctxs, op \in Ops, out \in Committed :
          Writes < MaxServeWrites /\ ServeMutation(ctx, op, out) /\ UNCHANGED <<obs, srv, ext>>
    \/ \E c \in BagToSet(tasks) :
          TaskIncr(c, TRUE) /\ UNCHANGED <<obs, srv, ext>>
    \/ \E c \in BagToSet(tasks) :
          TaskReset(c, TRUE) /\ UNCHANGED <<obs, srv, ext>>
    \/ \E kind \in OperationTypes, ctx \in Ctxs, key \in Keys :
          nreads < MaxServeReads /\ ServeOperation(kind, ctx, key, TRUE) /\ UNCHANGED <<obs, srv, ext>>
    \/ \E q \in BagToSet(reads) :
          GetEntry(q, TRUE) /\ UNCHANGED <<obs, srv, ext>>
    \/ \E q \in BagToSet(reads) :
          Fetch(q) /\ UNCHANGED <<obs, srv, ext>>
    \/ \E q \in BagToSet(reads) :
          AddKey(q, TRUE) /\ UNCHANGED <<obs, srv, ext>>
    \/ \E q \in BagToSet(reads) :
          AddSet(q, TRUE) /\ UNCHANGED <<obs, srv, ext>>
    \/ \E k \in DOMAIN redis :
          Expire(k) /\ UNCHANGED <<obs, srv, ext>>

SpecServe == Init /\ [][NextServe]_vars

\* a version lookup of Add, Get or Del, and the return of the operation
\* when buildVersionedKey returns an error
ObserveLookup(op, ctx, key, ok) ==
    /\ lookup' = [n |-> lookup.n + 1, op |-> op, ctx |-> ctx, key |-> key, ok |-> ok,
                  absent |-> versionKeyForTenant(tenantIDFromContext(ctx))
                                 \notin DOMAIN redis]
    /\ opret' = IF LookupErr(ok) # "nil"
                THEN [n |-> lookup.n + 1, op |-> op, err |-> LookupErr(ok)]
                ELSE opret

\* the cache level and the hook, Redis failing at any command, the
\* version lookups and their returns observed
NextLookup ==
    \/ \E ctx \in Ctxs, op \in Ops, out \in Committed :
          Writes < MaxLookupWrites /\ Mutate(ctx, op, out) /\ UNCHANGED <<lvl, beyondLvl>>
    \/ \E c \in BagToSet(tasks), ok \in BOOLEAN :
          TaskIncr(c, ok) /\ UNCHANGED <<lvl, beyondLvl>>
    \/ \E c \in BagToSet(tasks), ok \in BOOLEAN :
          TaskReset(c, ok) /\ UNCHANGED <<lvl, beyondLvl>>
    \/ \E ctx \in Ctxs, key \in Keys, ok \in BOOLEAN :
          /\ nreads < MaxLookupReads
          /\ GetKey(ctx, key, ok)
          /\ ObserveLookup("Get", ctx, key, ok)
          /\ UNCHANGED beyondLvl
    \/ \E q \in BagToSet(reads), ok \in BOOLEAN :
          GetEntry(q, ok) /\ UNCHANGED <<lvl, beyondLvl>>
    \/ \E q \in BagToSet(reads) :
          Fetch(q) /\ UNCHANGED <<lvl, beyondLvl>>
    \/ \E q \in BagToSet(reads), ok \in BOOLEAN :
          AddKey(q, ok) /\ ObserveLookup("Add", q.ctx, q.key, ok) /\ UNCHANGED beyondLvl
    \/ \E q \in BagToSet(reads), ok \in BOOLEAN :
          AddSet(q, ok) /\ UNCHANGED <<lvl, beyondLvl>>
    \/ \E ctx \in Ctxs, key \in Keys, ok \in BOOLEAN :
          /\ nreads < MaxLookupReads
          /\ DelKey(ctx, key, ok)
          /\ ObserveLookup("Del", ctx, key, ok)
          /\ UNCHANGED beyondLvl
    \/ \E q \in BagToSet(reads), ok \in BOOLEAN :
          DelEntry(q, ok) /\ UNCHANGED <<lvl, beyondLvl>>
    \/ \E k \in DOMAIN redis :
          Expire(k) /\ UNCHANGED <<lvl, beyondLvl>>

SpecLookup == Init /\ [][NextLookup]_vars

\* SET key value EX: Redis keeps the expiry of the entry; an expiration
\* that is not positive sets none
StoreExpiry(q, ok, ttl) ==
    ttls' = IF ok
            THEN [k \in DOMAIN ttls \cup {q.vkey} |->
                     IF k = q.vkey
                     THEN [asked |-> ttl, expiry |-> Max(SetExpiration(ttl), 0)]
                     ELSE ttls[k]]
            ELSE ttls

\* a key that leaves the store leaves its expiry behind
DropExpiry == ttls' = [k \in DOMAIN ttls \cap DOMAIN redis' |-> ttls[k]]

\* Redis drops an entry when its expiry has run out; an entry without
\* expiry stays
ExpireTTL(k) ==
    /\ k \in DOMAIN ttls
    /\ ttls[k].expiry > 0
    /\ Expire(k)
    /\ DropExpiry

\* the cache level and the hook, Redis answering, the expiry of the
\* entries kept
NextTTL ==
    \/ \E ctx \in Ctxs, op \in Ops, out \in Committed :
          Writes < MaxTTLWrites /\ Mutate(ctx, op, out) /\ UNCHANGED <<exp, beyondExp>>
    \/ \E c \in BagToSet(tasks) :
          TaskIncr(c, TRUE) /\ UNCHANGED <<exp, beyondExp>>
    \/ \E c \in BagToSet(tasks) :
          TaskReset(c, TRUE) /\ UNCHANGED <<exp, beyondExp>>
    \/ \E ctx \in Ctxs, key \in Keys :
          nreads < MaxTTLReads /\ GetKey(ctx, key, TRUE) /\ UNCHANGED <<exp, beyondExp>>
    \/ \E q \in BagToSet(reads) :
          GetEntry(q, TRUE) /\ UNCHANGED <<exp, beyondExp>>
    \/ \E q \in BagToSet(reads) :
          Fetch(q) /\ UNCHANGED <<exp, beyondExp>>
    \/ \E q \in BagToSet(reads) :
          AddKey(q, TRUE) /\ UNCHANGED <<exp, beyondExp>>
    \/ \E q \in BagToSet(reads), ok \in BOOLEAN, ttl \in TTLs :
          AddSet(q, ok) /\ StoreExpiry(q, ok, ttl) /\ UNCHANGED beyondExp
    \/ \E ctx \in Ctxs, key \in Keys :
          nreads < MaxTTLReads /\ DelKey(ctx, key, TRUE) /\ UNCHANGED <<exp, beyondExp>>
    \/ \E q \in BagToSet(reads) :
          DelEntry(q, TRUE) /\ DropExpiry /\ UNCHANGED beyondExp
    \/ \E k \in DOMAIN redis :
          ExpireTTL(k) /\ UNCHANGED beyondExp

\* an expiry that is set runs out
SpecTTL ==
    /\ Init
    /\ [][NextTTL]_vars
    /\ WF_vars(\E k \in DOMAIN redis : ExpireTTL(k) /\ UNCHANGED beyondExp)

\* the write client alone: every outcome of the wrapped mutation
HookNext(oks) ==
    \/ \E ctx \in Ctxs, op \in Ops, out \in MutateOutcomes :
          /\ out.err = "nil" => Writes < MaxHookWrites
          /\ Mutate(ctx, op, out)
          /\ UNCHANGED <<obs, srv, ext>>
    \/ \E c \in BagToSet(tasks), ok \in oks :
          TaskIncr(c, ok) /\ UNCHANGED <<obs, srv, ext>>
    \/ \E c \in BagToSet(tasks), ok \in oks :
          TaskReset(c, ok) /\ UNCHANGED <<obs, srv, ext>>

NextHook == HookNext(BOOLEAN)

SpecHook == Init /\ [][NextHook]_vars

\* the write client alone, Redis always answering
NextHookOk == HookNext({TRUE})

SpecHookOk == Init /\ [][NextHookOk]_vars

\* the write client alone, Redis always answering within the goroutine's
\* timeout, the callers' contexts cancelled at any time after the commit
NextCancel ==
    \/ \E ctx \in Ctxs, op \in Ops, out \in Committed :
          Writes < MaxCancelWrites /\ Mutate(ctx, op, out) /\ UNCHANGED <<obs, srv, ext>>
    \/ \E c \in BagToSet(tasks) :
          CancelCtx(c) /\ UNCHANGED <<obs, srv, ext>>
    \/ \E c \in BagToSet(tasks) :
          TaskIncr(c, TRUE) /\ UNCHANGED <<obs, srv, ext>>
    \/ \E c \in BagToSet(tasks) :
          TaskReset(c, TRUE) /\ UNCHANGED <<obs, srv, ext>>

SpecCancel == Init /\ [][NextCancel]_vars

\* one tenant without a counter, its mutations committed one after the
\* other, each goroutine run to its end before the next mutation, every
\* Redis command succeeding
InitSeq ==
    /\ redis = [k \in {} |-> 0]
    /\ db = [c \in Ctxs |-> 0]
    /\ tasks = EmptyBag
    /\ reads = EmptyBag
    /\ nreads = 0
    /\ returned = [next |-> NoPair, ret |-> NoPair]
    /\ incrs = [t \in Tenants |-> 0]
    /\ resets = [t \in Tenants |-> 0]
    /\ invalidated = [t \in Tenants |-> 0]
    /\ got = NoReturn
    /\ answer = NoAnswer
    /\ added = NoAdd
    /\ globalDBClient = 0
    /\ dbClientMutex = "free"
    /\ procs = EmptyBag
    /\ started = 0
    /\ attempts = 0
    /\ conns = {}
    /\ published = 0
    /\ closes = 0
    /\ handed = {}
    /\ InitExt

NextSeq ==
    \/ \E op \in Ops, out \in Committed :
          /\ tasks = EmptyBag
          /\ Writes < maxCacheVersion + SeqBeyond
          /\ Mutate(T1, op, out)
          /\ UNCHANGED <<obs, srv, ext>>
    \/ \E c \in BagToSet(tasks) :
          TaskIncr(c, TRUE) /\ UNCHANGED <<obs, srv, ext>>
    \/ \E c \in BagToSet(tasks) :
          TaskReset(c, TRUE) /\ UNCHANGED <<obs, srv, ext>>

SpecSeq == InitSeq /\ [][NextSeq]_vars

\* ================================================================ claims

\* a goroutine of the bag takes its step (it leaves the bag, or moves on)
Steps(c) == CopiesIn(c, tasks') < CopiesIn(c, tasks)

\* C1: tenant isolation.  Whatever Get finds for a context, at the key it
\* would build now or at the key a running Get has built, was stored by an
\* Add of the same context; this covers the tenant-less "global" bucket.
C1_TenantIsolation ==
    /\ \A ctx \in Ctxs, k \in Keys : \A e \in GetResult(ctx, k) : e.owner = ctx
    /\ \A q \in BagToSet(reads) :
          (q.pc = "get" /\ q.vkey \in DOMAIN redis) => redis[q.vkey].owner = q.ctx

\* an entry stored by T1 is in Redis while a Get of T2 for the same logical
\* key is about to read its versioned key, after a version bump
C1_Witness ==
    /\ \E k \in EntryKeys : redis[k].owner = T1
    /\ \E q \in BagToSet(reads) : q.pc = "get" /\ q.ctx = T2 /\ q.key = "q1"
    /\ incrs[T1] + incrs[T2] > 0

\* C8: frame of invalidation.  A step of the goroutine of a write of tenant
\* T1 changes no other bucket's counter and no other context's Get result;
\* the goroutine of a write without tenant changes nothing in Redis; the
\* commit itself changes no counter.
C8_InvalidationFrame ==
    [][ /\ \A c \in BagToSet(tasks) : Steps(c) =>
              /\ \A b \in Buckets : b # c.tenant => VersionState(b)' = VersionState(b)
              /\ \A ctx \in Ctxs, k \in Keys :
                    ctx # c.tenant => GetResult(ctx, k)' = GetResult(ctx, k)
              /\ c.tenant = NoTenant => redis' = redis
        /\ db' # db => redis' = redis ]_vars

\* the goroutine of a T1 write has incremented while Get of T2 has a hit
C8_Witness ==
    /\ incrs[T1] = 1
    /\ GetResult(T2, "q1") # {}

\* C9: a mutation that returned an error.  The hook hands back the value
\* and the error of next.Mutate as they are, no goroutine exists for such a
\* mutation, and a tenant's counter is never incremented more often than
\* mutations of that tenant have committed.
C9_ErrorSkipsInvalidation ==
    /\ returned.next.err # "nil" => returned.ret = returned.next
    /\ \A c \in BagToSet(tasks) : c.next.err = "nil"
    /\ \A t \in Tenants : incrs[t] <= db[t]

\* next.Mutate has just failed with a partial value, after a committed
\* mutation of the same tenant whose goroutine has incremented
C9_Witness ==
    /\ returned.next = [val |-> "partial", err |-> "constraint"]
    /\ incrs[T2] = 1
    /\ db[T2] = 1

\* C5 as claimed: every stored counter lies in [0, maxCacheVersion)
C5_VersionBelowBound ==
    \A t \in Tenants :
        VersionState(t) # NoKey => (0 <= VersionState(t) /\ VersionState(t) < maxCacheVersion)

\* C4 as claimed: no increment is lost.  When no goroutine is left, each
\* counter is its first value plus the INCRs that succeeded, modulo the wrap.
C4_NoIncrementLost ==
    tasks = EmptyBag =>
        \A t \in Tenants :
            CurrentVersion(t) % maxCacheVersion
                = (InitialVersion(t) + incrs[t]) % maxCacheVersion

\* C10 as claimed: a counter only moves up, or from the bound back to 0
C10_StrictlyIncreasing ==
    [][ \A t \in Tenants :
           CurrentVersion(t)' # CurrentVersion(t) =>
               \/ CurrentVersion(t)' > CurrentVersion(t)
               \/ (CurrentVersion(t)' = 0 /\ CurrentVersion(t) >= maxCacheVersion) ]_vars

\* C2 as claimed: once the goroutine of a write has ended without an error,
\* a Get of that tenant finds nothing fetched before that write committed
C2_NoStaleAfterInvalidation ==
    \A t \in Tenants, k \in Keys :
        \A e \in GetResult(t, k) : UnmarshalBinary(e.data) >= invalidated[t]

\* C3 as claimed: Add stores a result under the version that was current
\* when the result was fetched
C3_StaleAddUnderOldVersion ==
    [][ \A q \in BagToSet(reads) :
           (q.pc = "addset" /\ CopiesIn(q, reads') < CopiesIn(q, reads) /\ redis' # redis)
               => q.vkey = formatVersionedKey(tenantIDFromContext(q.ctx),
                                              ToString(q.fetchVer), q.key) ]_vars

\* C7 as claimed: right after a reset to 0, every Get of the tenant misses
C7_WrapForcesMiss ==
    [][ \A t \in Tenants :
           resets'[t] > resets[t] => \A k \in Keys : GetResult(t, k)' = {} ]_vars

C11_TaskFailureNotSurfaced ==
    [][ /\ returned'.next.err = "nil" => returned'.ret = returned'.next
        /\ \A c \in BagToSet(tasks) :
              Steps(c) => (returned' = returned /\ db' = db) ]_vars

\* the INCR of T2's only goroutine has failed and the SET 0 of T1's only
\* goroutine has failed (the counter stays at the bound); the last
\* mutation returned its row and no error
C11_Witness ==
    /\ tasks = EmptyBag
    /\ db[T2] = 1 /\ incrs[T2] = 0
    /\ db[T1] = 1 /\ incrs[T1] = 1 /\ resets[T1] = 0
    /\ VersionState(T1) = maxCacheVersion
    /\ returned.ret = [val |-> "row", err |-> "nil"]

\* C12: cancelling the caller's context after the commit does not cancel
\* the invalidation.  With Redis answering, a goroutine whose original
\* context is done still increments the counter of the tenant of that
\* context, and when no goroutine is left every committed mutation of a
\* tenant has incremented that tenant's counter.
C12_CancelKeepsInvalidation ==
    [][ /\ \A c \in BagToSet(tasks) :
              (Steps(c) /\ c.pc = "spawned" /\ c.ctxDone /\ c.tenant # NoTenant)
                  => /\ incrs'[c.tenant] = incrs[c.tenant] + 1
                     /\ VersionState(c.tenant)' = redisIncrValue(versionKeyForTenant(c.tenant))
        /\ tasks' = EmptyBag => \A t \in Tenants : incrs'[t] = db'[t] ]_vars

\* the goroutine of a T1 mutation has incremented T1's counter although
\* the caller's context was done before its INCR
C12_Witness ==
    \E c \in BagToSet(tasks) :
        /\ c.pc = "reset" /\ c.tenant = T1 /\ c.doneAtIncr
        /\ VersionState(T1) = maxCacheVersion

\* the Get of a read of the bag returns in this step
GetReturns(q) == q.pc = "get" /\ CopiesIn(q, reads') < CopiesIn(q, reads)

C15_FallbackOnUnavailability ==
    [][ /\ \A q \in BagToSet(reads) :
              /\ (GetReturns(q) /\ got'.err = "transport")
                    => CopiesIn([q EXCEPT !.pc = "fetch", !.add = FALSE,
                                          !.vkey = "", !.after = NoAdd], reads')
                         > CopiesIn([q EXCEPT !.pc = "fetch", !.add = FALSE,
                                              !.vkey = "", !.after = NoAdd], reads)
              /\ (q.pc = "fetch" /\ CopiesIn(q, reads') < CopiesIn(q, reads))
                    => answer' = [rows |-> db[q.ctx], err |-> "nil"]
        /\ (nreads' > nreads /\ got' # got)
              => (got'.err = "transport" /\ BagCardinality(reads') > BagCardinality(reads))
        /\ answer'.err \in {"none", "nil"} ]_vars

\* the only query so far met a Redis that did not answer and has returned
\* the rows of generation 1 from the data source
C15_Witness ==
    /\ nreads = 1
    /\ reads = EmptyBag
    /\ got.err = "transport"
    /\ answer = [rows |-> 1, err |-> "nil"]

\* C16: client routing.  The client in the context of a query operation
\* is the read client, that of a mutation or subscription is the write
\* client; and a write that commits goes through the write client, whose
\* hook starts a goroutine.
C16_ClientRouting ==
    [][ /\ \A q \in BagToSet(reads') :
              /\ q.op.kind = "query" => q.op.client = "query"
              /\ q.op.kind \in {"mutation", "subscription"} => q.op.client = "mutation"
        /\ db' # db => BagCardinality(tasks') = BagCardinality(tasks) + 1 ]_vars

\* a subscription's query is at the data source with the write client in
\* its context, next to a query operation inside Get with the read client
C16_Witness ==
    /\ \E q \in BagToSet(reads) :
          q.op.kind = "subscription" /\ q.op.client = "mutation" /\ q.pc = "fetch"
    /\ \E q \in BagToSet(reads) :
          q.op.kind = "query" /\ q.op.client = "query" /\ q.pc = "get"

\* C17: cache policy.  The cache mode of an operation's context is set
\* from its type and the presence of a tenant alone: query with tenant,
\* enabled; query without tenant, skip; mutation, skip; subscription,
\* untouched.  The handler's queries run with the mode set.
C17_CachePolicy ==
    \A q \in BagToSet(reads) :
        /\ (q.op.kind = "query" /\ q.ctx # NoTenant) => q.op.mode = "enabled"
        /\ (q.op.kind = "query" /\ q.ctx = NoTenant) => q.op.mode = "skip"
        /\ q.op.kind = "mutation" => q.op.mode = "skip"
        /\ q.op.kind = "subscription" => q.op.mode = "untouched"
        /\ q.op.mode = "skip" => q.pc = "fetch" /\ ~q.add

\* a mutation of tenant T1 and a query without tenant both query with
\* the skip mode
C17_Witness ==
    /\ \E q \in BagToSet(reads) :
          q.op.kind = "mutation" /\ q.ctx = T1 /\ q.op.mode = "skip"
    /\ \E q \in BagToSet(reads) :
          q.op.kind = "query" /\ q.ctx = NoTenant /\ q.op.mode = "skip"

\* C18: no query of a mutation or subscription is ever inside Get or Add
\* of the cache level, or on its way to an Add; every entry in Redis was
\* added by a query operation.
C18_WritesBypassCache ==
    /\ \A q \in BagToSet(reads) :
          q.op.kind \in {"mutation", "subscription"} => (q.pc = "fetch" /\ ~q.add)
    /\ \A k \in EntryKeys : redis[k].by = "query"

\* a subscription of T1 queries the data source while an entry for the
\* same key, added by a query operation of T1, is in Redis
C18_Witness ==
    /\ \E q \in BagToSet(reads) :
          q.op.kind = "subscription" /\ q.ctx = T1 /\ q.pc = "fetch"
    /\ GetResult(T1, "q1") # {}

\* InitDatabaseClient of a proc of the bag returns an error in this step
InitFails(p) ==
    /\ p.pc \in {"newclient", "query_ok"}
    /\ \E e \in {"query", "mutation"} :
          CopiesIn([p EXCEPT !.pc = "failed", !.err = e], procs')
              > CopiesIn([p EXCEPT !.pc = "failed", !.err = e], procs)

\* C19: fail-fast construction.  When NewClient fails on either
\* connection, InitDatabaseClient returns the error, globalDBClient is
\* still nil, nothing is published and no connection of the attempt is
\* left open (the query connection is closed when the mutation connection
\* fails); a published pair, until it is closed, has both its connections.
C19_FailFastConstruction ==
    [][ /\ \A p \in BagToSet(procs) :
              InitFails(p) =>
                  /\ globalDBClient' = 0
                  /\ published' = published
                  /\ \A c \in conns' : c.client # p.attempt
        /\ (globalDBClient' # 0 /\ closes' = 0) =>
              {[client |-> globalDBClient', type |-> t] : t \in {"query", "mutation"}}
                  \subseteq conns' ]_vars

\* NewClient has failed on the mutation connection after the query
\* connection was open: no connection is open, the singleton is nil
C19_Witness ==
    /\ \E p \in BagToSet(procs) : p.pc = "failed" /\ p.err = "mutation"
    /\ conns = {}
    /\ globalDBClient = 0
    /\ closes = 0

\* C20: lazy singleton.  A pair in globalDBClient is never replaced by
\* another pair, only set back to nil by CloseDatabaseClient; up to the
\* first CloseDatabaseClient at most one pair is published, and every
\* request that goes on to the next handler carries that pair, never nil.
C20_LazySingleton ==
    [][ /\ globalDBClient # 0 => globalDBClient' \in {globalDBClient, 0}
        /\ (globalDBClient # 0 /\ globalDBClient' = 0) => closes' = closes + 1
        /\ closes' = 0 =>
              /\ published' <= 1
              /\ \A h \in handed' : h.client # 0 /\ h.client = globalDBClient' ]_vars

\* two first requests both found no client and both called
\* InitDatabaseClient; the second NewClient of the process built the pair
\* and both requests are about to go on with it
C20_Witness ==
    /\ closes = 0
    /\ attempts = 2
    /\ \E p1 \in BagToSet(procs), p2 \in BagToSet(procs) :
          /\ p1.kind = "request" /\ p1.pc = "pass" /\ p1.attempt = 0 /\ p1.viaInit
          /\ p2.kind = "request" /\ p2.pc = "pass" /\ p2.attempt = 2
          /\ p1.client = 2 /\ p2.client = 2


Leaves(p) == CopiesIn(p, procs') < CopiesIn(p, procs)

\* C22: InitDatabaseClient retries after failure.  A call of
\* InitDatabaseClient that finds no client attempts the construction (so
\* a call after a failed one attempts it again) and the call whose
\* construction succeeds returns nil, a call that finds the client returns
\* nil and constructs nothing, and a request whose InitDatabaseClient
\* failed is answered 503 without going on to the next handler.
C22_RetryAfterFailure ==
    [][ \A p \in BagToSet(procs) :
           /\ (p.pc = "init" /\ Leaves(p)) =>
                 IF globalDBClient = 0
                 THEN attempts' = attempts + 1
                 ELSE /\ attempts' = attempts
                      /\ BagIn([p EXCEPT !.pc = "inited"], procs')
           /\ (p.pc = "query_ok" /\ Leaves(p) /\ published' # published) =>
                 BagIn([p EXCEPT !.pc = "inited"], procs')
           /\ (p.kind = "request" /\ p.pc = "failed" /\ Leaves(p)) =>
                 /\ handed' = handed
                 /\ refused' = refused + 1 ]_vars

\* s starts with the tenant id t and the separator
StartsWithTenant(s, t) ==
    /\ Len(s) > Len(t)
    /\ SubSeq(s, 1, Len(t) + 1) = t \o ":"

\* C23: pub/sub tenant gate.  A Publisher method called with a context
\* without tenant returns the unauthorized error and publishes nothing,
\* so does BuildChannelName, which returns no name; every event published
\* and every name built carries a tenant, and its channel name starts
\* with the id of that tenant.
C23_TenantGate ==
    /\ \A c \in channels : /\ c.ctx \in Tenants
                           /\ StartsWithTenant(c.channel, c.ctx)
    /\ pubcall # NoCall =>
          /\ pubcall.ctx \in Tenants
          /\ \A i \in 1..Len(pubcall.todo) : StartsWithTenant(pubcall.todo[i], pubcall.ctx)
    /\ pubret.ctx = NoTenant => pubret.err = "unauthorized"
    /\ pubret.err = "nil" => pubret.ctx \in Tenants
    /\ built.ctx = NoTenant => built.err = "unauthorized" /\ built.name = ""
    /\ built.ctx \in Tenants => built.err = "nil" /\ StartsWithTenant(built.name, built.ctx)

\* a caller without tenant has been refused by PublishEntityCreated and
\* nothing is published, and BuildChannelName has built the channel of a
\* ticket for tenant T1
C23_Witness ==
    /\ pubret = [method |-> "PublishEntityCreated", ctx |-> NoTenant, err |-> "unauthorized"]
    /\ pubcall = NoCall
    /\ pubs = 1
    /\ channels = {}
    /\ built = [ctx |-> T1, name |-> T1 \o ":ticket_e1", err |-> "nil"]

\* the last n messages taken from chEvents were nil
LastNil(n) ==
    /\ Len(received) >= n
    /\ \A i \in (Len(received) - n + 1)..Len(received) : received[i] = "nil"

EntryPc(op) == IF op = "Get" THEN "get" ELSE IF op = "Add" THEN "addset" ELSE "del"

\* C25: version lookup errors.  A version lookup that Redis answers
\* builds the key and returns no error, with version 0 when the tenant's
\* counter is absent; when the lookup fails with a transport error the
\* operation (Add, Get or Del) returns that error, the store is left as
\* it is and no operation comes to stand before a command for an entry.
C25_VersionLookupErrors ==
    [][ lookup'.n # lookup.n =>
           IF lookup'.ok
           THEN /\ opret' = opret
                /\ \E q \in BagToSet(reads') :
                      /\ q.ctx = lookup'.ctx /\ q.key = lookup'.key
                      /\ q.pc = EntryPc(lookup'.op)
                      /\ CopiesIn(q, reads') > CopiesIn(q, reads)
                      /\ q.vkey = formatVersionedKey(
                                      tenantIDFromContext(q.ctx),
                                      IF lookup'.absent THEN "0"
                                      ELSE ToString(VersionState(tenantIDFromContext(q.ctx))),
                                      q.key)
           ELSE /\ opret' = [n |-> lookup'.n, op |-> lookup'.op, err |-> "transport"]
                /\ redis' = redis
                /\ \A q \in BagToSet(reads') :
                      q.pc \in {"get", "addset", "del"} =>
                          CopiesIn(q, reads') <= CopiesIn(q, reads) ]_vars

\* a Get of tenant T2, which has no counter, built its key with version
\* 0 and missed; the rows were read, and the version lookup of the Add
\* failed: Add returned the error and nothing is stored for T2
C25_Witness ==
    /\ lookup = [n |-> 2, op |-> "Add", ctx |-> T2, key |-> "q1", ok |-> FALSE,
                 absent |-> TRUE]
    /\ opret = [n |-> 2, op |-> "Add", err |-> "transport"]
    /\ reads = EmptyBag
    /\ DOMAIN redis = {versionKeyForTenant(T1)}

\* C26: expiry of the entries.  Every cache entry in the store has been
\* SET by Add with a positive expiry: the ttl Add was called with when
\* that is positive, 5 minutes when it is not; no entry stands without
\* expiry, and no entry, orphaned or not, stays for ever: with the Adds
\* at their end the store is left without entries again and again.
C26_EntriesExpire ==
    /\ [](\A k \in EntryKeys :
                /\ k \in DOMAIN ttls
                /\ ttls[k].expiry > 0
                /\ ttls[k].asked > 0 => ttls[k].expiry = ttls[k].asked
                /\ ttls[k].asked <= 0 => ttls[k].expiry = 5 * 60)
    /\ []<>(EntryKeys = {})

\* an entry of T1 was added with ttl 0 under version 99999 and carries
\* 5 minutes; a mutation of T1 has moved the counter on to 100000: the
\* entry is orphaned
C26_Witness ==
    /\ \E k \in EntryKeys :
          /\ k = formatVersionedKey(T1, ToString(maxCacheVersion - 1), "q1")
          /\ ttls[k] = [asked |-> 0, expiry |-> 300]
    /\ VersionState(T1) = maxCacheVersion

\* ------------------------------------------------------------------ C27
\* a cache-level operation that stands at one of these has a version
\* lookup (Add) or the GET of the entry (Get) as its next command
ReadingPcs == {"get", "addkey"}

\* C27: key building and Get only read.  A step that starts a Get or a
\* Del (its version lookup), and a step that takes a Get through its GET
\* or an Add through its version lookup, leave the whole key space as it
\* was; a counter, absent ones included, changes only in a step of an
\* invalidation goroutine of its tenant, and an entry only where an Add
\* or a Del at its second command, or the expiry, acts on its key.
C27_LookupsOnlyRead ==
    [][/\ nreads' # nreads => redis' = redis
       /\ \A q \in BagToSet(reads) :
             (q.pc \in ReadingPcs /\ CopiesIn(q, reads') < CopiesIn(q, reads))
                 => redis' = redis
       /\ \A b \in Buckets :
             VersionState(b)' # VersionState(b)
                 => \E c \in BagToSet(tasks) :
                       /\ tenantIDFromContext(c.tenant) = b
                       /\ CopiesIn(c, tasks') < CopiesIn(c, tasks)
       /\ \A k \in (EntryKeys \cup EntryKeys') :
             (k \in DOMAIN redis) # (k \in DOMAIN redis')
                 => \/ \E q \in BagToSet(reads) :
                          /\ q.pc \in {"addset", "del"}
                          /\ q.vkey = k
                          /\ CopiesIn(q, reads') < CopiesIn(q, reads)
                    \/ (reads' = reads /\ tasks' = tasks /\ k \notin DOMAIN redis')
      ]_vars

\* a Get and the key building of an Add for T2 went through while T2 has
\* no counter, and the counter is still absent; the counter of T1 has been
\* written by its hook
C27_Witness ==
    /\ VersionState(T2) = NoKey
    /\ \E q \in BagToSet(reads) : q.pc = "addset" /\ q.ctx = T2
    /\ incrs[T1] > 0

\* ------------------------------------------------------------------ C28
\* C28: the pairs of NewClient.  A pair that NewClient returned with the
\* Redis cache level in its read handle has the invalidation hook in its
\* write handle, whatever the health check of the Redis service did to
\* the shared client while the pair was built.
C28_LevelImpliesHook ==
    \A pr \in pairsBuilt : pr.level # 0 => pr.hook # 0

\* ------------------------------------------------------------------ C29
\* the places of a request in the batches that were passed to fetch
FetchesOf(r) ==
    {p \in BagToSet(fetched) \X (1..MaxLoads) :
        p[2] <= Len(p[1].reqs) /\ p[1].reqs[p[2]] = r}

\* the requests that wait in l.batch or in a batch on its way to fetch
Waiting(r) ==
    \/ \E i \in 1..Len(batch) : batch[i] = r
    \/ \E b \in executing : \E i \in 1..Len(b) : b[i] = r

\* C29: BatchLoader.  Under every interleaving of Loads, timers that
\* fire (stopped too late or not), flushes of a full batch and contexts
\* that are done: a request that Load enqueued is in l.batch or in a
\* batch on its way to fetch, with a timer to flush it, until it has
\* been passed to fetch, and it is passed to fetch at one place of one
\* batch only; no batch passed to fetch has more than maxBatch keys; a
\* Load that returned has the context error of its own done context, or
\* the value and the error that fetch returned at the index of its
\* request (the zero value and no error where fetch returned shorter
\* slices); and in the end every request has been fetched and every
\* Load that was called has returned.
C29_BatchLoader ==
    /\ [](/\ \A f \in BagToSet(fetched) :
                Len(f.reqs) <= maxBatch /\ CopiesIn(f, fetched) = 1
          /\ \A r \in Requests :
                /\ Cardinality(FetchesOf(r)) <= 1
                /\ loads[r].pc # "none" => (Waiting(r) # (FetchesOf(r) # {}))
                /\ (\E i \in 1..Len(batch) : batch[i] = r)
                       => (timer # 0 /\ timer \in pendingTimers \cup firedTimers)
                /\ loads[r].pc = "returned"
                       => \/ loads[r].ret = [value |-> ZeroValue, err |-> "ctx"]
                             /\ loads[r].ctxDone
                          \/ \E p \in FetchesOf(r) :
                                LET f == p[1]
                                    i == p[2]
                                IN  /\ loads[r].ret.value =
                                          IF i <= Len(f.values) THEN f.values[i] ELSE ZeroValue
                                    /\ loads[r].ret.err =
                                          IF i <= Len(f.errors) THEN f.errors[i] ELSE "nil")
    /\ <>[](\A r \in Requests :
               loads[r].pc # "none" => (loads[r].pc = "returned" /\ FetchesOf(r) # {}))

\* a full batch was flushed by a Load and a later batch by its timer; the
\* second caller of the full batch got the error of its index with the
\* value of its index, and a Load returned with the error of its context
C29_Witness ==
    /\ \E f \in BagToSet(fetched) : Len(f.reqs) = maxBatch
    /\ \E f \in BagToSet(fetched) : Len(f.reqs) < maxBatch
    /\ \E r \in Requests :
          /\ loads[r].pc = "returned"
          /\ loads[r].ret = [value |-> <<"value", maxBatch>>, err |-> "fetch"]
    /\ \E r \in Requests : loads[r].pc = "returned" /\ loads[r].ret.err = "ctx"

\* ------------------------------------------------------------------ C30
\* the keys of the bucket that contexts without a tenant share
GlobalKeys ==
    {formatVersionedKey("global", ToString(v), key) : v \in 0..maxCacheVersion, key \in Keys}

\* C30: the shared bucket stays empty.  Whatever queries, mutations and
\* subscriptions are served, with a tenant or without: the query of an
\* operation without a tenant is at the data source, with no key built
\* and no Add to follow, and Redis holds no entry at a key of the
\* "global" bucket and no entry of a context without a tenant.
C30_GlobalBucketEmpty ==
    /\ \A q \in BagToSet(reads) :
          (q.op.kind \in OperationTypes /\ q.ctx = NoTenant)
              => (q.pc = "fetch" /\ ~q.add /\ q.vkey = "")
    /\ \A k \in EntryKeys : k \notin GlobalKeys /\ redis[k].owner # NoTenant

\* a query operation without a tenant is at the data source after a
\* mutation without a tenant has committed, while Redis holds the entry
\* that a query operation of T1 added
C30_Witness ==
    /\ \E q \in BagToSet(reads) :
          q.op.kind = "query" /\ q.ctx = NoTenant /\ q.pc = "fetch"
    /\ db[NoTenant] > 0
    /\ \E k \in EntryKeys : redis[k].owner = T1 /\ redis[k].by = "query"
====
